---- MODULE Spec2Model ----
(***************************************************************************)
(* The cephfs-share relation protocol of the cephfs-client operator:       *)
(* the interface library (lib/charms/storage_libs/v0/ceph_interfaces.py),  *)
(* with its requirer and provider sides, and the charm's handlers          *)
(* (src/charm.py) that react to the library's semantic events.             *)
(*                                                                         *)
(* The host delivers one signal at a time; a library handler that emits a  *)
(* semantic event runs the charm's handler of that event before it         *)
(* returns, so one action is one host signal with everything it calls.     *)
(* Writes to a bucket take effect when the code makes them.                *)
(***************************************************************************)
EXTENDS Integers, Sequences, FiniteSets, TLC

\* ------------------------------------------------------------------ bounds
NumRels == 2          \* RelationInstances under the relation name
MaxPeerUnits == 1     \* units of the remote application in one instance

Rels == 1..NumRels

\* ------------------------------------------------------------------ values
NULL == "null"                       \* Python None / JSON null
Mountpoints == {"/data", "/mnt"}
Truthy(v) == v # NULL /\ v # ""

\* charm.py: MOUNT_OPTS
MOUNT_OPTS == <<"noexec", "nosuid", "nodev", "read-only">>

\* The order in which a mapping's keys are written out by json.dumps.
KeyOrder ==
    <<"mountpoint", "noexec", "nosuid", "nodev", "read-only",
      "name", "share_info", "extra", "cache">>

EmptyBag == [k \in {} |-> ""]

\* dict.get(key) with None for a missing key
Get(bag, k) == IF k \in DOMAIN bag THEN bag[k] ELSE NULL

\* dict.update(data)
Update(bag, data) ==
    [k \in DOMAIN bag \cup DOMAIN data |->
        IF k \in DOMAIN data THEN data[k] ELSE bag[k]]

\* {key: value for key, value in bag.items() if key != "cache"}
WithoutCache(bag) == [k \in DOMAIN bag \ {"cache"} |-> bag[k]]

\* json.dumps of a flat string-keyed mapping: the text is the sequence of
\* its key/value pairs.
Dumps(bag) ==
    LET ks == SelectSeq(KeyOrder, LAMBDA k : k \in DOMAIN bag)
    IN  [n \in 1..Len(ks) |-> <<ks[n], bag[ks[n]]>>]

\* json.loads of such a text: a later pair of the same key wins.
Loads(text) ==
    [k \in {text[n][1] : n \in DOMAIN text} |->
        LET last_n == CHOOSE n \in DOMAIN text :
                /\ text[n][1] = k
                /\ \A m \in DOMAIN text : text[m][1] = k => m <= n
        IN  text[last_n][2]]

\* "{}"
EmptyText == << >>

\* ------------------------------------------------------- share descriptors
\* A value of the key share_info is a JSON text; the bucket holds the name of
\* the text and TextOf gives what it says. M1 lacks the
\* field auth_id, BAD is not JSON.
ShareFields == <<"fsid", "name", "path", "monitor_hosts", "auth_id">>

DescA == [fsid |-> "f-a", name |-> "fs-a", path |-> "/",
          monitor_hosts |-> "m1,m2", auth_id |-> "secret:a"]
DescB == [fsid |-> "f-b", name |-> "fs-b", path |-> "/b",
          monitor_hosts |-> "m2,m1", auth_id |-> "secret:b"]

\* A descriptor no caller should publish: every field empty.
DescNone == [fsid |-> "", name |-> "", path |-> "",
             monitor_hosts |-> "", auth_id |-> ""]

ShareTexts == {"A1", "A2", "B1", "N1", "M1", "BAD"}

\* asdict(share_info) written out by json.dumps: the fields in declaration
\* order.
DescPairs(d) == [n \in 1..Len(ShareFields) |-> <<ShareFields[n], d[ShareFields[n]]>>]

Reverse(s) == [n \in 1..Len(s) |-> s[Len(s) + 1 - n]]

TextOf(t) ==
    CASE t = "A1" -> DescPairs(DescA)
      [] t = "A2" -> Reverse(DescPairs(DescA))
      [] t = "B1" -> DescPairs(DescB)
      [] t = "N1" -> DescPairs(DescNone)
      [] t = "M1" -> SubSeq(DescPairs(DescA), 1, Len(ShareFields) - 1)
      [] OTHER    -> << >>

IsJson(t) == t \in {"A1", "A2", "B1", "N1", "M1"}

\* ------------------------------------------------------------------- state
VARIABLES
    relState,     \* per instance: "none" (not created), "alive", "breaking"
                  \* (listed still, its bag unreadable), "gone"
    peerUnits,    \* per instance: units of the remote application in it
    provApp,      \* per instance: the provider application's bucket
    reqApp,       \* per instance: the requirer application's bucket
    reqUnit,      \* per instance: the requirer unit's bucket (holds cache)
    provUnit,     \* per instance: the provider unit's bucket (holds cache)
    leader,       \* the requirer unit is leader
    provLeader,   \* the provider unit is leader
    peerData,     \* application bucket of the peer relation "mount"
    mounts,       \* mountpoints with a CephFS mount (the OS's state)
    status,       \* the requirer unit's status
    deferred,     \* the instances with a deferred ServerConnected pending
    last,         \* what the last step was and did
    shareSeen,    \* history: the instances whose latest relation-changed on
                  \* the requirer found share_info in the peer's bucket
    files,        \* the machine's files the manager touches: path -> content
    provUnitB,    \* per instance: the bucket of the provider's second unit
    provLeaderB   \* the provider's second unit is leader

vars == <<relState, peerUnits, provApp, reqApp, reqUnit, provUnit, leader,
          provLeader, peerData, mounts, status, deferred, last, shareSeen,
          files,
          provUnitB, provLeaderB>>

Status(kind, msg) == [kind |-> kind, msg |-> msg]

NoTransaction == [added |-> {}, changed |-> {}, deleted |-> {}]

\* The record of a step: the signal, its instance, the semantic events it
\* emitted, the collaborator calls it made, how the handler ended, and the
\* Transaction it computed.
Step(sig, rel) ==
    [sig |-> sig, rel |-> rel, emitted |-> << >>, calls |-> << >>,
     raised |-> FALSE, defer |-> FALSE, tx |-> NoTransaction]

Cur ==
    [relState |-> relState, peerUnits |-> peerUnits, provApp |-> provApp,
     reqApp |-> reqApp, reqUnit |-> reqUnit, provUnit |-> provUnit,
     leader |-> leader, provLeader |-> provLeader, peerData |-> peerData,
     mounts |-> mounts, status |-> status, deferred |-> deferred,
     last |-> last, shareSeen |-> shareSeen, files |-> files,
     provUnitB |-> provUnitB, provLeaderB |-> provLeaderB]

Commit(T) ==
  \E S \in {T} :
    /\ relState' = S.relState
    /\ peerUnits' = S.peerUnits
    /\ provApp' = S.provApp
    /\ reqApp' = S.reqApp
    /\ reqUnit' = S.reqUnit
    /\ provUnit' = S.provUnit
    /\ leader' = S.leader
    /\ provLeader' = S.provLeader
    /\ peerData' = S.peerData
    /\ mounts' = S.mounts
    /\ status' = S.status
    /\ deferred' = S.deferred
    /\ last' = S.last
    /\ shareSeen' = S.shareSeen
    /\ files' = S.files
    /\ provUnitB' = S.provUnitB
    /\ provLeaderB' = S.provLeaderB

Begin(S, sig, rel) == [S EXCEPT !.last = Step(sig, rel)]
Raise(S) == [S EXCEPT !.last.raised = TRUE]
Emit(S, ev) == [S EXCEPT !.last.emitted = Append(@, ev)]
Call(S, c) == [S EXCEPT !.last.calls = Append(@, c)]
SetStatus(S, kind, msg) == [S EXCEPT !.status = Status(kind, msg)]

Init ==
    /\ relState = [i \in Rels |-> "none"]
    /\ peerUnits = [i \in Rels |-> 0]
    /\ provApp = [i \in Rels |-> EmptyBag]
    /\ reqApp = [i \in Rels |-> EmptyBag]
    /\ reqUnit = [i \in Rels |-> EmptyBag]
    /\ provUnit = [i \in Rels |-> EmptyBag]
    /\ leader \in BOOLEAN
    /\ provLeader = FALSE
    /\ peerData = EmptyBag
    /\ mounts = {}
    /\ status = Status("unknown", "")
    /\ deferred = {}
    /\ last = Step("init", 0)
    /\ shareSeen = {}
    /\ files = EmptyBag
    /\ provUnitB = [i \in Rels |-> EmptyBag]
    /\ provLeaderB = FALSE

\* ----------------------------------------------------------- ceph_interfaces
\* _eval: the Transaction between the cached snapshot in `unitBag` and the
\* remote application's bucket `remote`, and the unit bucket with the new
\* cache written back.
EvalOld(unitBag) ==
    Loads(IF "cache" \in DOMAIN unitBag THEN unitBag["cache"] ELSE EmptyText)

\* (mutant) the key cache stays in the new snapshot.
EvalNewWithCache(remote) == remote

EvalNew(remote) == WithoutCache(remote)

\* (mutant) every key the two snapshots share counts as changed.
ChangedCommon(old, new) == DOMAIN old \cap DOMAIN new

\* (mutant) a key whose value changed counts as added too.
AddedOrChanged(old, new) ==
    (DOMAIN new \ DOMAIN old)
        \cup {k \in DOMAIN old \cap DOMAIN new : old[k] # new[k]}

Added(old, new) == DOMAIN new \ DOMAIN old
Deleted(old, new) == DOMAIN old \ DOMAIN new
Changed(old, new) == {k \in DOMAIN old \cap DOMAIN new : old[k] # new[k]}

Transaction(unitBag, remote) ==
    LET old == EvalOld(unitBag)
        new == EvalNew(remote)
    IN  [added |-> Added(old, new), changed |-> Changed(old, new),
         deleted |-> Deleted(old, new)]

\* (mutant) the snapshot is written only while there is no cache yet.
EvalCacheFirstOnly(unitBag, remote) ==
    IF "cache" \in DOMAIN unitBag
    THEN unitBag
    ELSE Update(unitBag, [k \in {"cache"} |-> Dumps(EvalNew(remote))])

\* (mutant) the snapshot is not written back.
EvalCacheSkipped(unitBag, remote) == unitBag

EvalCache(unitBag, remote) ==
    Update(unitBag, [k \in {"cache"} |-> Dumps(EvalNew(remote))])

\* charm.model.relations[integration_name]: the instances the host lists.
relations(S) == {i \in Rels : S.relState[i] \in {"alive", "breaking"}}

\* repr(integration.data) does not raise RuntimeError.
Readable(S, i) == S.relState[i] = "alive"

\* (mutant) every listed instance.
integrationsUnfiltered(S) == relations(S)

\* _BaseInterface.integrations: the instances whose data can be read.
integrations(S) == {i \in relations(S) : Readable(S, i)}

\* _BaseInterface.fetch_data on the requirer side: the remote application is
\* the provider.
fetch_data(S) == [i \in integrations(S) |-> WithoutCache(S.provApp[i])]

\* (mutant) any unit writes.
ReqUpdateDataUngated(S, integration_id, data) ==
    IF S.relState[integration_id] = "alive"
    THEN [S EXCEPT !.reqApp[integration_id] = Update(@, data)]
    ELSE Raise(S)

\* (mutant) the bucket is replaced by the data, not merged with it.
ReqUpdateDataOverwrite(S, integration_id, data) ==
    IF S.leader
    THEN IF S.relState[integration_id] = "alive"
         THEN [S EXCEPT !.reqApp[integration_id] = data]
         ELSE Raise(S)
    ELSE S

\* _BaseInterface._update_data on the requirer side: the unit is this
\* application's, the bucket written is reqApp. Reaching for the bucket of an
\* instance that does not exist (any more) fails in the host.
ReqUpdateData(S, integration_id, data) ==
    IF S.leader
    THEN IF S.relState[integration_id] = "alive"
         THEN [S EXCEPT !.reqApp[integration_id] = Update(@, data)]
         ELSE Raise(S)
    ELSE S

\* _BaseInterface._update_data on the provider side.
ProvUpdateData(S, integration_id, data) ==
    IF S.provLeader
    THEN IF S.relState[integration_id] = "alive"
         THEN [S EXCEPT !.provApp[integration_id] = Update(@, data)]
         ELSE Raise(S)
    ELSE S

\* CephFSRequires.request_share
request_share(S, integration_id, name) ==
    IF S.leader
    THEN ReqUpdateData(S, integration_id, [k \in {"name"} |-> name])
    ELSE S

\* (mutant) one text whatever the descriptor.
DumpShareSame(d) == "A1"

\* json.dumps(share_info.dict()): the text that says DescPairs(d).
DumpShare(d) == CHOOSE t \in ShareTexts : IsJson(t) /\ TextOf(t) = DescPairs(d)

\* CephFSProvides.set_share
set_share(S, integration_id, share_info) ==
    IF S.provLeader
    THEN ProvUpdateData(S, integration_id,
                        [k \in {"share_info"} |-> DumpShare(share_info)])
    ELSE S

\* -------------------------------------------------------------------- charm
\* CephFSClientOperatorCharm.get_state (the peer relation is there from the
\* unit's start).
get_state(S, key) ==
    Loads(IF key \in DOMAIN S.peerData THEN S.peerData[key] ELSE EmptyText)

\* CephFSClientOperatorCharm.set_state
set_state(S, key, data) ==
    [S EXCEPT !.peerData = Update(@, [k \in {key} |-> Dumps(data)])]

\* What the collaborators answer during one handler: the secret lookup, the
\* mount and the umount each succeed or fail. A call is recorded with its
\* answer (ok).
Envs == [secret : BOOLEAN, mount : BOOLEAN, umount : BOOLEAN]
MountEnvs == {e \in Envs : e.umount}
UmountEnvs == {e \in Envs : e.secret /\ e.mount}

MountError == "Failed to mount share"
UmountError == "Failed to umount share"

InstallError == "Failed to install ceph-common"

\* _on_install; ok is whether cephfs.install() succeeds.
OnInstall(S, ok) ==
    LET S1 == Call(SetStatus(S, "maintenance", "Installing required packages"),
                   [op |-> "install", ok |-> ok])
    IN  IF ok THEN S1 ELSE SetStatus(S1, "blocked", InstallError)

\* (mutant) the supplied values replace the stored ones.
OnConfigChangedOverwrite(S, cfg) ==
    LET mountpoint == cfg["mountpoint"] IN
    IF ~Truthy(mountpoint)
    THEN SetStatus(S, "blocked", "No configured mountpoint")
    ELSE SetStatus(set_state(S, "config", cfg),
                   "waiting", "Waiting for CephFS share")

\* (mutant) the flags are recorded before the mountpoint is looked at.
OnConfigChangedFlagsFirst(S, cfg) ==
    LET config == get_state(S, "config")
        opts == {MOUNT_OPTS[n] : n \in DOMAIN MOUNT_OPTS}
        c0 == [k \in DOMAIN config \cup opts |->
                 IF k \in opts /\ Get(config, k) = NULL THEN cfg[k]
                 ELSE config[k]]
        S0 == set_state(S, "config", c0)
        mountpoint == cfg["mountpoint"]
    IN  IF ~Truthy(mountpoint)
        THEN SetStatus(S0, "blocked", "No configured mountpoint")
        ELSE
            LET c1 == IF Truthy(Get(c0, "mountpoint"))
                      THEN c0
                      ELSE Update(c0, [k \in {"mountpoint"} |-> mountpoint])
            IN  SetStatus(set_state(S0, "config", c1),
                          "waiting", "Waiting for CephFS share")

\* (mutant) a flag the charm config leaves unset is not recorded.
OnConfigChangedSetOnly(S, cfg) ==
    LET mountpoint == cfg["mountpoint"] IN
    IF ~Truthy(mountpoint)
    THEN SetStatus(S, "blocked", "No configured mountpoint")
    ELSE
        LET config == get_state(S, "config")
            c1 == IF Truthy(Get(config, "mountpoint"))
                  THEN config
                  ELSE Update(config, [k \in {"mountpoint"} |-> mountpoint])
            opts == {MOUNT_OPTS[n] : n \in DOMAIN MOUNT_OPTS}
            set == {k \in opts : cfg[k] # NULL}
            c2 == [k \in DOMAIN c1 \cup set |->
                     IF k \in set /\ Get(c1, k) = NULL THEN cfg[k] ELSE c1[k]]
        IN  SetStatus(set_state(S, "config", c2),
                      "waiting", "Waiting for CephFS share")

\* _on_config_changed; cfg is the charm config, NULL where a key is unset.
OnConfigChanged(S, cfg) ==
    LET mountpoint == cfg["mountpoint"] IN
    IF ~Truthy(mountpoint)
    THEN SetStatus(S, "blocked", "No configured mountpoint")
    ELSE
        LET config == get_state(S, "config")
            c1 == IF Truthy(Get(config, "mountpoint"))
                  THEN config
                  ELSE Update(config, [k \in {"mountpoint"} |-> mountpoint])
            opts == {MOUNT_OPTS[n] : n \in DOMAIN MOUNT_OPTS}
            c2 == [k \in DOMAIN c1 \cup opts |->
                     IF k \in opts /\ Get(c1, k) = NULL THEN cfg[k] ELSE c1[k]]
        IN  SetStatus(set_state(S, "config", c2),
                      "waiting", "Waiting for CephFS share")

\* (mutant) the event is not deferred.
OnServerConnectedDropped(S, i) ==
    LET S1 == SetStatus(S, "maintenance", "Requesting CephFS share")
        mountpoint == Get(get_state(S1, "config"), "mountpoint")
    IN  IF ~Truthy(mountpoint)
        THEN SetStatus(S1, "blocked", "No configured mountpoint")
        ELSE request_share(S1, i, mountpoint)

\* (mutant) no share request once the mountpoint is set.
OnServerConnectedNoRequest(S, i) ==
    LET S1 == SetStatus(S, "maintenance", "Requesting CephFS share")
        mountpoint == Get(get_state(S1, "config"), "mountpoint")
    IN  IF ~Truthy(mountpoint)
        THEN [SetStatus(S1, "blocked", "No configured mountpoint")
                EXCEPT !.last.defer = TRUE, !.deferred = @ \cup {i}]
        ELSE S1

\* _on_server_connected; the event is deferred when the mountpoint is unset.
OnServerConnected(S, i) ==
    LET S1 == SetStatus(S, "maintenance", "Requesting CephFS share")
        mountpoint == Get(get_state(S1, "config"), "mountpoint")
    IN  IF ~Truthy(mountpoint)
        THEN [SetStatus(S1, "blocked", "No configured mountpoint")
                EXCEPT !.last.defer = TRUE, !.deferred = @ \cup {i}]
        ELSE request_share(S1, i, mountpoint)

\* _MountEvent.share_info and CephFSShareInfo(**json.loads(share_info)):
\* ShareInfoFails when the handler's use of it raises (no share_info, a text
\* that is not JSON, fields other than the descriptor's); ShareInfo is the
\* descriptor otherwise.
ShareInfo(S, i) == Loads(TextOf(Get(S.provApp[i], "share_info")))

ShareInfoFails(S, i) ==
    LET text == Get(S.provApp[i], "share_info") IN
    \/ ~Truthy(text)
    \/ ~IsJson(text)
    \/ DOMAIN ShareInfo(S, i) # {ShareFields[n] : n \in DOMAIN ShareFields}

MountOpts(config) ==
    << IF config["noexec"] = "true" THEN "noexec" ELSE "exec",
       IF config["nosuid"] = "true" THEN "nosuid" ELSE "suid",
       IF config["nodev"] = "true" THEN "nodev" ELSE "dev",
       IF config["read-only"] = "true" THEN "ro" ELSE "rw" >>

\* (mutant) the default options, whatever the frozen flags.
OnMountShareDefaultOptions(S, i, env) ==
    LET config == get_state(S, "config") IN
    IF "mountpoint" \notin DOMAIN config THEN Raise(S)
    ELSE
    LET mountpoint == config["mountpoint"] IN
    IF mountpoint \in S.mounts THEN S
    ELSE IF ShareInfoFails(S, i) THEN Raise(S)
    ELSE
    LET share_info == ShareInfo(S, i) IN
    LET S1 == Call(S, [op |-> "get_secret", id |-> share_info.auth_id,
                       ok |-> env.secret]) IN
    IF ~env.secret THEN Raise(S1)
    ELSE
    LET S2 == Call(S1, [op |-> "mount", at |-> mountpoint,
                        fsid |-> share_info.fsid, name |-> share_info.name,
                        path |-> share_info.path,
                        monitor_hosts |-> share_info.monitor_hosts,
                        options |-> <<"exec", "suid", "dev", "rw">>,
                        ok |-> env.mount])
    IN  IF env.mount
        THEN SetStatus([S2 EXCEPT !.mounts = @ \cup {mountpoint}],
                       "active", "CephFS share mounted at " \o mountpoint)
        ELSE SetStatus(S2, "blocked", MountError)

\* (mutant) the share is mounted without asking whether it is mounted.
OnMountShareUnchecked(S, i, env) ==
    LET config == get_state(S, "config") IN
    IF "mountpoint" \notin DOMAIN config THEN Raise(S)
    ELSE
    LET mountpoint == config["mountpoint"] IN
    IF \E n \in DOMAIN MOUNT_OPTS : MOUNT_OPTS[n] \notin DOMAIN config
    THEN Raise(S)
    ELSE
    IF ShareInfoFails(S, i) THEN Raise(S)
    ELSE
    LET share_info == ShareInfo(S, i) IN
    LET S1 == Call(S, [op |-> "get_secret", id |-> share_info.auth_id,
                       ok |-> env.secret]) IN
    IF ~env.secret THEN Raise(S1)
    ELSE
    LET S2 == Call(S1, [op |-> "mount", at |-> mountpoint,
                        fsid |-> share_info.fsid, name |-> share_info.name,
                        path |-> share_info.path,
                        monitor_hosts |-> share_info.monitor_hosts,
                        options |-> MountOpts(config), ok |-> env.mount])
    IN  IF env.mount
        THEN SetStatus([S2 EXCEPT !.mounts = @ \cup {mountpoint}],
                       "active", "CephFS share mounted at " \o mountpoint)
        ELSE SetStatus(S2, "blocked", MountError)

\* _on_mount_share
OnMountShare(S, i, env) ==
    LET config == get_state(S, "config") IN
    IF "mountpoint" \notin DOMAIN config THEN Raise(S)
    ELSE
    LET mountpoint == config["mountpoint"] IN
    IF mountpoint \in S.mounts THEN S
    ELSE IF \E n \in DOMAIN MOUNT_OPTS : MOUNT_OPTS[n] \notin DOMAIN config
    THEN Raise(S)
    ELSE
    IF ShareInfoFails(S, i) THEN Raise(S)
    ELSE
    LET share_info == ShareInfo(S, i) IN
    LET S1 == Call(S, [op |-> "get_secret", id |-> share_info.auth_id,
                       ok |-> env.secret]) IN
    IF ~env.secret THEN Raise(S1)
    ELSE
    LET S2 == Call(S1, [op |-> "mount", at |-> mountpoint,
                        fsid |-> share_info.fsid, name |-> share_info.name,
                        path |-> share_info.path,
                        monitor_hosts |-> share_info.monitor_hosts,
                        options |-> MountOpts(config), ok |-> env.mount])
    IN  IF env.mount
        THEN SetStatus([S2 EXCEPT !.mounts = @ \cup {mountpoint}],
                       "active", "CephFS share mounted at " \o mountpoint)
        ELSE SetStatus(S2, "blocked", MountError)

\* (mutant) a failing umount is not caught.
OnUmountShareUncaught(S, i, env) ==
    LET config == get_state(S, "config") IN
    IF "mountpoint" \notin DOMAIN config THEN Raise(S)
    ELSE
    LET mountpoint == config["mountpoint"]
        S1 == SetStatus(S, "maintenance",
                        "Unmounting CephFS share at " \o mountpoint)
    IN  IF mountpoint \in S1.mounts
        THEN LET S2 == Call(S1, [op |-> "umount", at |-> mountpoint,
                                      ok |-> env.umount]) IN
             IF env.umount
             THEN SetStatus([S2 EXCEPT !.mounts = @ \ {mountpoint}],
                            "waiting", "Waiting for CephFS share")
             ELSE Raise(S2)
        ELSE SetStatus(S1, "waiting", "Waiting for CephFS share")

\* _on_umount_share
OnUmountShare(S, i, env) ==
    LET config == get_state(S, "config") IN
    IF "mountpoint" \notin DOMAIN config THEN Raise(S)
    ELSE
    LET mountpoint == config["mountpoint"]
        S1 == SetStatus(S, "maintenance",
                        "Unmounting CephFS share at " \o mountpoint)
    IN  IF mountpoint \in S1.mounts
        THEN LET S2 == Call(S1, [op |-> "umount", at |-> mountpoint,
                                      ok |-> env.umount]) IN
             IF env.umount
             THEN SetStatus([S2 EXCEPT !.mounts = @ \ {mountpoint}],
                            "waiting", "Waiting for CephFS share")
             ELSE SetStatus(S2, "blocked", UmountError)
        ELSE SetStatus(S1, "waiting", "Waiting for CephFS share")

\* The outcomes of cephfs.umount and cephfs.remove in the stop hook.
StopEnvs == [umount : BOOLEAN, remove : BOOLEAN]

\* (mutant) the packages are removed whatever is mounted.
OnStopAlwaysRemove(S, env) ==
    LET mountpoint == Get(get_state(S, "config"), "mountpoint")
        S1 == IF mountpoint \in S.mounts
              THEN LET U == Call(SetStatus(S, "maintenance",
                                           "Unmounting " \o mountpoint),
                                 [op |-> "umount", at |-> mountpoint,
                                  ok |-> env.umount])
                   IN  IF env.umount
                       THEN [U EXCEPT !.mounts = @ \ {mountpoint}]
                       ELSE Raise(U)
              ELSE S
    IN  IF S1.last.raised THEN S1
        ELSE LET R == Call(SetStatus(S1, "maintenance",
                                     "Removing required packages"),
                           [op |-> "remove", ok |-> env.remove])
             IN  IF env.remove
                 THEN SetStatus(R, "maintenance", "Shutting down...")
                 ELSE Raise(R)

\* _on_stop; cephfs.mounted(m) is m \in mounts, cephfs.mounts() is mounts. An
\* Error of umount or remove is not caught.
OnStop(S, env) ==
    LET mountpoint == Get(get_state(S, "config"), "mountpoint")
        S1 == IF mountpoint \in S.mounts
              THEN LET U == Call(SetStatus(S, "maintenance",
                                           "Unmounting " \o mountpoint),
                                 [op |-> "umount", at |-> mountpoint,
                                  ok |-> env.umount])
                   IN  IF env.umount
                       THEN [U EXCEPT !.mounts = @ \ {mountpoint}]
                       ELSE Raise(U)
              ELSE S
    IN  IF S1.last.raised THEN S1
        ELSE IF S1.mounts = {}
        THEN LET R == Call(SetStatus(S1, "maintenance",
                                     "Removing required packages"),
                           [op |-> "remove", ok |-> env.remove])
             IN  IF env.remove
                 THEN SetStatus(R, "maintenance", "Shutting down...")
                 ELSE Raise(R)
        ELSE SetStatus(S1, "maintenance", "Shutting down...")

\* --------------------------------------------------- the library's handlers
\* (mutant) ServerConnected from every unit.
ReqOnRelationJoinedUngated(S, i) ==
    OnServerConnected(Emit(S, "ServerConnected"), i)

\* CephFSRequires._on_relation_joined
ReqOnRelationJoined(S, i) ==
    IF S.leader
    THEN OnServerConnected(Emit(S, "ServerConnected"), i)
    ELSE S

\* (mutant) one cache, that of instance 1, for every instance.
ReqOnRelationChangedOneCache(S, i, env) ==
    LET transaction == Transaction(S.reqUnit[1], S.provApp[i])
        S1 == [S EXCEPT !.reqUnit[1] = EvalCache(@, S.provApp[i]),
                        !.last.tx = transaction]
    IN  IF "share_info" \in transaction.added
        THEN OnMountShare(Emit(S1, "MountShare"), i, env)
        ELSE S1

\* (mutant) the cache is written only when MountShare is emitted.
ReqOnRelationChangedCacheOnEvent(S, i, env) ==
    LET transaction == Transaction(S.reqUnit[i], S.provApp[i])
        S1 == [S EXCEPT !.last.tx = transaction]
    IN  IF "share_info" \in transaction.added
        THEN OnMountShare(
                 Emit([S1 EXCEPT !.reqUnit[i] = EvalCache(@, S.provApp[i])],
                      "MountShare"), i, env)
        ELSE S1

\* (mutant) the cache is written to the remote application's bucket.
ReqOnRelationChangedCacheInPeer(S, i, env) ==
    LET transaction == Transaction(S.reqUnit[i], S.provApp[i])
        S1 == [S EXCEPT !.provApp[i] = EvalCache(@, S.provApp[i]),
                        !.last.tx = transaction]
    IN  IF "share_info" \in transaction.added
        THEN OnMountShare(Emit(S1, "MountShare"), i, env)
        ELSE S1

\* (mutant) MountShare when share_info has changed, not when it is new.
ReqOnRelationChangedOnChanged(S, i, env) ==
    LET transaction == Transaction(S.reqUnit[i], S.provApp[i])
        S1 == [S EXCEPT !.reqUnit[i] = EvalCache(@, S.provApp[i]),
                        !.last.tx = transaction]
    IN  IF "share_info" \in transaction.changed
        THEN OnMountShare(Emit(S1, "MountShare"), i, env)
        ELSE S1

\* (mutant) MountShare once for every added key.
ReqOnRelationChangedPerKey(S, i, env) ==
    LET transaction == Transaction(S.reqUnit[i], S.provApp[i])
        S1 == [S EXCEPT !.reqUnit[i] = EvalCache(@, S.provApp[i]),
                        !.last.tx = transaction]
        S2 == IF "share_info" \in transaction.added
              THEN OnMountShare(Emit(S1, "MountShare"), i, env)
              ELSE S1
    IN  IF "extra" \in transaction.added /\ ~S2.last.raised
        THEN OnMountShare(Emit(S2, "MountShare"), i, env)
        ELSE S2

\* CephFSRequires._on_relation_changed
ReqOnRelationChanged(S, i, env) ==
    LET transaction == Transaction(S.reqUnit[i], S.provApp[i])
        S1 == [S EXCEPT !.reqUnit[i] = EvalCache(@, S.provApp[i]),
                        !.last.tx = transaction]
    IN  IF "share_info" \in transaction.added
        THEN OnMountShare(Emit(S1, "MountShare"), i, env)
        ELSE S1

\* (mutant) UmountShare only when something is mounted.
ReqOnRelationDepartedIfMounted(S, i, env) ==
    IF S.mounts # {} THEN OnUmountShare(Emit(S, "UmountShare"), i, env) ELSE S

\* (mutant) the departure forgets the cached snapshot.
ReqOnRelationDepartedForgets(S, i, env) ==
    OnUmountShare(Emit([S EXCEPT !.reqUnit[i] =
                           [k \in DOMAIN @ \ {"cache"} |-> @[k]]],
                       "UmountShare"), i, env)

\* CephFSRequires._on_relation_departed
ReqOnRelationDeparted(S, i, env) ==
    OnUmountShare(Emit(S, "UmountShare"), i, env)

\* (mutant) the provider diffs on every unit.
ProvOnRelationChangedUngated(S, i) ==
    LET transaction == Transaction(S.provUnit[i], S.reqApp[i])
        S1 == [S EXCEPT !.provUnit[i] = EvalCache(@, S.reqApp[i]),
                        !.last.tx = transaction]
    IN  IF "name" \in transaction.added
        THEN Emit(S1, "ShareRequested")
        ELSE S1

\* CephFSProvides._on_relation_changed
ProvOnRelationChanged(S, i) ==
    IF S.provLeader
    THEN LET transaction == Transaction(S.provUnit[i], S.reqApp[i])
             S1 == [S EXCEPT !.provUnit[i] = EvalCache(@, S.reqApp[i]),
                             !.last.tx = transaction]
         IN  IF "name" \in transaction.added
             THEN Emit(S1, "ShareRequested")
             ELSE S1
    ELSE S

\* ------------------------------------------------------------------ actions
\* What the charm config can hold when config-changed arrives.
Config(mp, noexec, nosuid, nodev, ro) ==
    [k \in {"mountpoint", "noexec", "nosuid", "nodev", "read-only"} |->
        CASE k = "mountpoint" -> mp
          [] k = "noexec" -> noexec
          [] k = "nosuid" -> nosuid
          [] k = "nodev" -> nodev
          [] OTHER -> ro]

ConfigInputs ==
    { Config(NULL, "true", "true", "true", "true"),
      Config("/data", NULL, NULL, NULL, NULL),
      Config("/mnt", "true", "false", NULL, "true") }

ThinConfigInputs ==
    { Config(NULL, "true", "true", "true", "true"),
      Config("/data", "true", "false", NULL, "true") }

\* What the remote side can put in its bucket.
PeerTexts == {"A1", "B1"}
PeerKeys == {"share_info", "extra"}
ReqKeys == {"name", "extra"}
ReqValues(k) == IF k = "name" THEN Mountpoints ELSE {"x"}

Note(sig, rel) == last' = Step(sig, rel)

\* The host creates instance i; ids are handed out in order.
RelationCreated(i) ==
    /\ relState[i] = "none"
    /\ \A j \in Rels : j < i => relState[j] # "none"
    /\ relState' = [relState EXCEPT ![i] = "alive"]
    /\ Note("relation_created", i)
    /\ UNCHANGED <<peerUnits, provApp, reqApp, reqUnit, provUnit, leader,
                   provLeader, peerData, mounts, status, deferred, shareSeen,
                   files, provUnitB,
                   provLeaderB>>

\* The host ends instance i, with its buckets.
RelationBroken(i) ==
    /\ relState[i] = "alive"
    /\ peerUnits[i] = 0
    /\ relState' = [relState EXCEPT ![i] = "gone"]
    /\ provApp' = [provApp EXCEPT ![i] = EmptyBag]
    /\ reqApp' = [reqApp EXCEPT ![i] = EmptyBag]
    /\ reqUnit' = [reqUnit EXCEPT ![i] = EmptyBag]
    /\ provUnit' = [provUnit EXCEPT ![i] = EmptyBag]
    /\ provUnitB' = [provUnitB EXCEPT ![i] = EmptyBag]
    /\ shareSeen' = shareSeen \ {i}
    /\ Note("relation_broken", i)
    /\ UNCHANGED <<peerUnits, leader, provLeader, peerData, mounts, status,
                   deferred, files, provLeaderB>>

\* relation-joined on the requirer unit, the remote application having at
\* most n units.
RelationJoinedUpTo(i, n) ==
    /\ relState[i] = "alive"
    /\ peerUnits[i] < n
    /\ LET S0 == [Begin(Cur, "relation_joined", i)
                    EXCEPT !.peerUnits[i] = @ + 1]
           S1 == ReqOnRelationJoined(S0, i)
       IN  Commit(S1)

RelationJoined(i) == RelationJoinedUpTo(i, MaxPeerUnits)

\* relation-changed on the requirer unit, the collaborators behaving as one
\* of envs.
RelationChangedIn(i, envs) ==
    /\ relState[i] = "alive"
    /\ \E env \in envs :
         \E S0 \in {Begin(Cur, "relation_changed", i)} :
           \E S1 \in {ReqOnRelationChanged(S0, i, env)} :
             Commit([S1 EXCEPT !.shareSeen =
                        IF "share_info" \in DOMAIN provApp[i]
                        THEN @ \cup {i} ELSE @ \ {i}])

RelationChanged(i) == RelationChangedIn(i, MountEnvs)

\* relation-departed on the requirer unit, the collaborators behaving as one
\* of envs.
RelationDepartedIn(i, envs) ==
    /\ relState[i] = "alive"
    /\ peerUnits[i] > 0
    /\ \E env \in envs :
         LET S0 == [Begin(Cur, "relation_departed", i)
                      EXCEPT !.peerUnits[i] = @ - 1]
         IN  Commit(ReqOnRelationDeparted(S0, i, env))

RelationDeparted(i) == RelationDepartedIn(i, UmountEnvs)

\* The deferred ServerConnected of instance i is delivered again. (Several
\* pending for one instance are delivered in one go and the handler does the
\* same for each, so one stands for all of them.)
Redeliver(i) ==
    /\ i \in deferred
    /\ \E S0 \in {[Begin(Cur, "redeliver", i) EXCEPT !.deferred = @ \ {i}]} :
          Commit(OnServerConnected(Emit(S0, "ServerConnected"), i))

\* config-changed on the requirer unit, the charm config one of `inputs`.
ConfigChangedOf(inputs) ==
    \E cfg \in inputs :
        Commit(OnConfigChanged(Begin(Cur, "config_changed", 0), cfg))

ConfigChanged == ConfigChangedOf(ConfigInputs)

\* The requirer unit gains or loses leadership.
LeaderChange ==
    /\ leader' = ~leader
    /\ Note("leader_change", 0)
    /\ UNCHANGED <<relState, peerUnits, provApp, reqApp, reqUnit, provUnit,
                   provLeader, peerData, mounts, status, deferred, shareSeen,
                   files, provUnitB,
                   provLeaderB>>

\* The provider side changes its bucket of instance i: it sets a key of
\* `keys` (share_info to one of `texts`) or removes it.
PeerWritesOf(i, keys, texts) ==
    /\ relState[i] = "alive"
    /\ \E k \in keys :
         \/ \E v \in (IF k = "share_info" THEN texts ELSE {"x"}) :
              provApp' = [provApp EXCEPT ![i] = Update(@, [x \in {k} |-> v])]
         \/ provApp' = [provApp EXCEPT ![i] = [x \in DOMAIN @ \ {k} |-> @[x]]]
    /\ provApp' # provApp
    /\ Note("peer_writes", i)
    /\ UNCHANGED <<relState, peerUnits, reqApp, reqUnit, provUnit, leader,
                   provLeader, peerData, mounts, status, deferred, shareSeen,
                   files, provUnitB,
                   provLeaderB>>

PeerWrites(i) == PeerWritesOf(i, PeerKeys, PeerTexts)

\* The host creates instance i once the instances before it have ended (one
\* integration with the provider at a time).
RelationCreatedNext(i) ==
    /\ \A j \in Rels : j < i => relState[j] = "gone"
    /\ RelationCreated(i)

\* The requirer with one RelationInstance at a time.
Next ==
    \/ \E i \in Rels : RelationCreatedNext(i)
    \/ \E i \in Rels : RelationBroken(i)
    \/ \E i \in Rels : RelationJoined(i)
    \/ \E i \in Rels : RelationChanged(i)
    \/ \E i \in Rels : RelationDeparted(i)
    \/ \E i \in Rels : Redeliver(i)
    \/ \E i \in Rels : PeerWrites(i)
    \/ ConfigChanged
    \/ LeaderChange

Spec == Init /\ [][Next]_vars

\* Something else of the requirer application writes its bucket of instance
\* i (the key extra).
LocalWrites(i) ==
    /\ relState[i] = "alive"
    /\ "extra" \notin DOMAIN reqApp[i]
    /\ reqApp' = [reqApp EXCEPT ![i] = Update(@, [x \in {"extra"} |-> "x"])]
    /\ Note("local_writes", i)
    /\ UNCHANGED <<relState, peerUnits, provApp, reqUnit, provUnit, leader,
                   provLeader, peerData, mounts, status, deferred, shareSeen,
                   files, provUnitB,
                   provLeaderB>>

\* Two RelationInstances side by side, their peers joining and departing.
Pair == {1, 2}

ConnectNext ==
    \/ \E i \in Pair : RelationCreated(i)
    \/ \E i \in Pair : RelationBroken(i)
    \/ \E i \in Pair : RelationJoined(i)
    \/ \E i \in Pair : RelationDeparted(i)
    \/ \E i \in Pair : Redeliver(i)
    \/ \E i \in Pair : LocalWrites(i)
    \/ ConfigChangedOf(ThinConfigInputs)
    \/ LeaderChange

ConnectSpec == Init /\ [][ConnectNext]_vars

\* ------------------------------------------------------------ the provider
\* The provider unit gains or loses leadership.
ProvLeaderChange ==
    /\ provLeader' = ~provLeader
    /\ Note("prov_leader_change", 0)
    /\ UNCHANGED <<relState, peerUnits, provApp, reqApp, reqUnit, provUnit,
                   leader, peerData, mounts, status, deferred, shareSeen,
                   files, provUnitB,
                   provLeaderB>>

\* The requirer side changes its bucket of instance i.
RequirerWrites(i) ==
    /\ relState[i] = "alive"
    /\ \E k \in ReqKeys :
         \/ \E v \in ReqValues(k) :
              reqApp' = [reqApp EXCEPT ![i] = Update(@, [x \in {k} |-> v])]
         \/ reqApp' = [reqApp EXCEPT ![i] = [x \in DOMAIN @ \ {k} |-> @[x]]]
    /\ reqApp' # reqApp
    /\ Note("requirer_writes", i)
    /\ UNCHANGED <<relState, peerUnits, provApp, reqUnit, provUnit, leader,
                   provLeader, peerData, mounts, status, deferred, shareSeen,
                   files, provUnitB,
                   provLeaderB>>

\* relation-changed on the provider unit.
ProvRelationChanged(i) ==
    /\ relState[i] = "alive"
    /\ Commit(ProvOnRelationChanged(Begin(Cur, "prov_relation_changed", i), i))

Descriptors == {DescA, DescB}

\* The provider's charm calls set_share.
SetShareOf(i, ds) ==
    \E d \in ds : Commit(set_share(Begin(Cur, "set_share", i), i, d))

SetShare(i) == SetShareOf(i, Descriptors)

ProvNext ==
    \/ \E i \in Rels : RelationCreatedNext(i)
    \/ \E i \in Rels : RelationBroken(i)
    \/ \E i \in Rels : RequirerWrites(i)
    \/ \E i \in Rels : ProvRelationChanged(i)
    \/ \E i \in Rels : SetShare(i)
    \/ ProvLeaderChange

ProvSpec == Init /\ [][ProvNext]_vars

\* ------------------------------------------------- the library's write calls
\* A charm calls request_share.
RequestShare(i) ==
    \E name \in Mountpoints :
        Commit(request_share(Begin(Cur, "request_share", i), i, name))

UpdateInputs == { [k \in {"extra"} |-> "x"] }

\* _update_data called on the requirer side.
ReqUpdateDataCall(i) ==
    \E data \in UpdateInputs :
        Commit(ReqUpdateData(Begin(Cur, "req_update_data", i), i, data))

\* _update_data called on the provider side.
ProvUpdateDataCall(i) ==
    \E data \in UpdateInputs :
        Commit(ProvUpdateData(Begin(Cur, "prov_update_data", i), i, data))

WriteNext ==
    \/ \E i \in Pair : RelationCreated(i)
    \/ \E i \in Pair : RelationBroken(i)
    \/ \E i \in Pair : RequestShare(i)
    \/ \E i \in Pair : SetShare(i)
    \/ \E i \in Pair : ReqUpdateDataCall(i)
    \/ \E i \in Pair : ProvUpdateDataCall(i)
    \/ LeaderChange
    \/ ProvLeaderChange

WriteSpec == Init /\ [][WriteNext]_vars

\* ------------------------------------------------------ deferral, with fairness
\* The requirer's side of joining, with one instance at a time; a deferred
\* event is delivered again with the next hook the host runs, and the host
\* keeps running hooks (update-status at the least).
FairNext ==
    \/ \E i \in Rels : RelationCreatedNext(i)
    \/ \E i \in Rels : RelationBroken(i)
    \/ \E i \in Rels : RelationJoined(i)
    \/ \E i \in Rels : RelationDeparted(i)
    \/ \E i \in Rels : Redeliver(i)
    \/ ConfigChanged
    \/ LeaderChange

FairSpec ==
    /\ Init
    /\ [][FairNext]_vars
    /\ \A i \in Rels : WF_vars(Redeliver(i))

\* ----------------------------------------------------------- the diff alone
\* _eval on the requirer unit over every pair of a cached snapshot and a
\* bucket of the remote application: instance 1 is there with its peer, the
\* cache is one an earlier _eval wrote (in either key order) or none, the
\* remote bucket holds any of the keys, the reserved key cache among them.
DiffTexts == {"A1", "A2", "B1"}
DiffKeys == {"share_info", "extra", "name", "cache"}
DiffValues(k) == IF k = "share_info" THEN DiffTexts ELSE {"x", "y"}

\* The mappings from some of `keys` to their values.
Bags(keys) ==
    UNION { { b \in [ks -> UNION {DiffValues(k) : k \in ks}] :
                \A k \in ks : b[k] \in DiffValues(k) } : ks \in SUBSET keys }

Caches ==
    {EmptyBag}
      \cup UNION { { [k \in {"cache"} |-> Dumps(b)],
                     [k \in {"cache"} |-> Reverse(Dumps(b))] } :
                   b \in Bags(DiffKeys \ {"cache"}) }

DiffInit ==
    /\ relState = [i \in Rels |-> IF i = 1 THEN "alive" ELSE "none"]
    /\ peerUnits = [i \in Rels |-> IF i = 1 THEN 1 ELSE 0]
    /\ provApp \in {[i \in Rels |-> IF i = 1 THEN b ELSE EmptyBag] :
                        b \in Bags(DiffKeys)}
    /\ reqApp = [i \in Rels |-> EmptyBag]
    /\ reqUnit \in {[i \in Rels |-> IF i = 1 THEN c ELSE EmptyBag] :
                        c \in Caches}
    /\ provUnit = [i \in Rels |-> EmptyBag]
    /\ leader = FALSE
    /\ provLeader = FALSE
    /\ peerData = EmptyBag
    /\ mounts = {}
    /\ status = Status("unknown", "")
    /\ deferred = {}
    /\ last = Step("init", 0)
    /\ shareSeen = {}
    /\ files = EmptyBag
    /\ provUnitB = [i \in Rels |-> EmptyBag]
    /\ provLeaderB = FALSE

\* The charm reads the integration data.
FetchData ==
    LET S0 == Begin(Cur, "fetch_data", 0) IN
    Commit(IF \E i \in integrations(Cur) : ~Readable(Cur, i)
           THEN Raise(S0)
           ELSE Call(S0, [op |-> "fetch_data", returned |-> fetch_data(Cur)]))

DiffNext ==
    \/ \E i \in Rels : RelationChanged(i)
    \/ \E i \in Rels : PeerWritesOf(i, DiffKeys, DiffTexts)
    \/ FetchData

DiffSpec == DiffInit /\ [][DiffNext]_vars

\* ------------------------------------------------------- both sides' diffs
\* Both units of one instance at a time, each side writing its bucket and
\* handling relation-changed.
BothPeerKeys == {"share_info", "cache"}

BothNext ==
    \/ \E i \in Rels : RelationCreatedNext(i)
    \/ \E i \in Rels : RelationBroken(i)
    \/ \E i \in Rels : PeerWritesOf(i, BothPeerKeys, PeerTexts)
    \/ \E i \in Rels : RelationChanged(i)
    \/ \E i \in Rels : RequirerWrites(i)
    \/ \E i \in Rels : ProvRelationChanged(i)
    \/ ProvLeaderChange

BothSpec == Init /\ [][BothNext]_vars

\* ------------------------------------------------- publishing and reading
\* The provider publishes any descriptor, the requirer unit reads it at
\* relation-changed.
AnyDescriptors == Descriptors \cup {DescNone}

ShareNext ==
    \/ \E i \in Rels : RelationCreatedNext(i)
    \/ \E i \in Rels : RelationBroken(i)
    \/ \E i \in Rels : SetShareOf(i, AnyDescriptors)
    \/ \E i \in Rels : RelationChanged(i)
    \/ ProvLeaderChange
    \/ ConfigChangedOf(ThinConfigInputs)

ShareSpec == Init /\ [][ShareNext]_vars

\* ------------------------------------------------ two instances, both diffed
\* Two RelationInstances side by side, each peer writing its bucket, the
\* requirer unit handling relation-changed of either.
FanPeerKeys == {"share_info"}

FanNext ==
    \/ \E i \in Pair : RelationCreated(i)
    \/ \E i \in Pair : RelationBroken(i)
    \/ \E i \in Pair : PeerWritesOf(i, FanPeerKeys, PeerTexts)
    \/ \E i \in Pair : RelationChanged(i)
    \/ ConfigChangedOf(ThinConfigInputs)

FanSpec == Init /\ [][FanNext]_vars

\* ---------------------------------------------------- instances that end
\* The relation-broken hook of instance i begins: the host lists the instance
\* still, the bag of the remote side can no longer be read.
RelationBreaking(i) ==
    /\ relState[i] = "alive"
    /\ peerUnits[i] = 0
    /\ relState' = [relState EXCEPT ![i] = "breaking"]
    /\ Note("relation_breaking", i)
    /\ UNCHANGED <<peerUnits, provApp, reqApp, reqUnit, provUnit, leader,
                   provLeader, peerData, mounts, status, deferred, shareSeen,
                   files, provUnitB,
                   provLeaderB>>

\* The hook is over and the instance gone, with its buckets.
RelationBrokenEnd(i) ==
    /\ relState[i] = "breaking"
    /\ relState' = [relState EXCEPT ![i] = "gone"]
    /\ provApp' = [provApp EXCEPT ![i] = EmptyBag]
    /\ reqApp' = [reqApp EXCEPT ![i] = EmptyBag]
    /\ reqUnit' = [reqUnit EXCEPT ![i] = EmptyBag]
    /\ provUnit' = [provUnit EXCEPT ![i] = EmptyBag]
    /\ provUnitB' = [provUnitB EXCEPT ![i] = EmptyBag]
    /\ shareSeen' = shareSeen \ {i}
    /\ Note("relation_broken", i)
    /\ UNCHANGED <<peerUnits, leader, provLeader, peerData, mounts, status,
                   deferred, files, provLeaderB>>

StorePeerKeys == {"share_info", "cache"}

\* Two instances that come and go while the charm reads the integration data.
StoreNext ==
    \/ \E i \in Pair : RelationCreated(i)
    \/ \E i \in Pair : RelationBreaking(i)
    \/ \E i \in Pair : RelationBrokenEnd(i)
    \/ \E i \in Pair : PeerWritesOf(i, StorePeerKeys, PeerTexts)
    \/ FetchData

StoreSpec == Init /\ [][StoreNext]_vars

\* --------------------------------------------------------- the frozen config
\* Every charm config: the mountpoint unset, empty or a path, each flag unset,
\* true or false.
FlagValues == {NULL, "true", "false"}

AllConfigInputs ==
    { Config(mp, noexec, nosuid, nodev, ro) :
        mp \in {NULL, ""} \cup Mountpoints,
        noexec \in FlagValues, nosuid \in FlagValues,
        nodev \in FlagValues, ro \in FlagValues }

\* config-changed signals only, with any config.
ConfigNext == ConfigChangedOf(AllConfigInputs)

ConfigSpec == Init /\ [][ConfigNext]_vars

\* ------------------------------------------------- the unit from its install
\* install, the first hook the host runs on the unit.
Install ==
    /\ last.sig = "init"
    /\ \E ok \in BOOLEAN : Commit(OnInstall(Begin(Cur, "install", 0), ok))

HookPeerKeys == {"share_info"}
HookPeerTexts == {"A1"}

\* The requirer unit's hooks from install on, one instance at a time.
HookNext ==
    \/ Install
    \/ \E i \in Rels : RelationCreatedNext(i)
    \/ \E i \in Rels : RelationBroken(i)
    \/ \E i \in Rels : RelationJoined(i)
    \/ \E i \in Rels : RelationChanged(i)
    \/ \E i \in Rels : RelationDeparted(i)
    \/ \E i \in Rels : Redeliver(i)
    \/ \E i \in Rels : PeerWritesOf(i, HookPeerKeys, HookPeerTexts)
    \/ ConfigChangedOf(ThinConfigInputs)

HookSpec == Init /\ [][HookNext]_vars

\* ------------------------------------------------ the hooks of both sides
First == {1}

\* One instance with a unit on each side: every relation hook the library
\* observes, and the writes that feed them.
EventNext ==
    \/ \E i \in First : RelationCreated(i)
    \/ \E i \in First : RelationJoined(i)
    \/ \E i \in First : RelationChanged(i)
    \/ \E i \in First : RelationDeparted(i)
    \/ \E i \in First : PeerWritesOf(i, PeerKeys, HookPeerTexts)
    \/ \E i \in First : RequirerWrites(i)
    \/ \E i \in First : ProvRelationChanged(i)
    \/ LeaderChange
    \/ ProvLeaderChange
    \/ ConfigChangedOf(ThinConfigInputs)

EventSpec == Init /\ [][EventNext]_vars

\* ------------------------------------------- what the requirer writes
\* One instance: every requirer-side entry point of the library, the peer
\* filling its own bucket (a key cache included).
FrameNext ==
    \/ \E i \in First : RelationCreated(i)
    \/ \E i \in First : RelationJoined(i)
    \/ \E i \in First : RelationChanged(i)
    \/ \E i \in First : RelationDeparted(i)
    \/ \E i \in First : Redeliver(i)
    \/ \E i \in First : RequestShare(i)
    \/ \E i \in First : LocalWrites(i)
    \/ \E i \in First : PeerWritesOf(i, BothPeerKeys, HookPeerTexts)
    \/ LeaderChange
    \/ ConfigChangedOf(ThinConfigInputs)

FrameSpec == Init /\ [][FrameNext]_vars

\* ------------------------------------------------- what the peer publishes
\* share_info as a well-formed text, a JSON text that lacks a field (M1) and
\* a text that is not JSON (BAD).
MalformedTexts == {"A1", "M1", "BAD"}
MalformedKeys == {"share_info"}

MalformedNext ==
    \/ \E i \in First : RelationCreated(i)
    \/ \E i \in First : PeerWritesOf(i, MalformedKeys, MalformedTexts)
    \/ \E i \in First : RelationChanged(i)
    \/ ConfigChangedOf(ConfigInputs)

MalformedSpec == Init /\ [][MalformedNext]_vars

\* ------------------------------------------------------ the charm upgraded
\* upgrade-charm on the unit: the charm observes install, config_changed,
\* stop and the library's three events, so no handler of it runs.
UpgradeCharm ==
    /\ last.sig # "init"
    /\ Commit(Begin(Cur, "upgrade_charm", 0))

UpgradeNext ==
    \/ Install
    \/ UpgradeCharm
    \/ ConfigChangedOf(AllConfigInputs)

UpgradeSpec == Init /\ [][UpgradeNext]_vars

\* ------------------------------------------------------- the unit stopped
\* The unit runs hooks until its stop hook has run.
Running == last.sig # "stop"

\* stop on the unit.
Stop == \E env \in StopEnvs : Commit(OnStop(Begin(Cur, "stop", 0), env))

\* Something other than the charm mounts a CephFS share on the machine, at a
\* place that is not the charm's.
OtherMount ==
    \E m \in Mountpoints :
        /\ m \notin mounts
        /\ m # Get(get_state(Cur, "config"), "mountpoint")
        /\ mounts' = mounts \cup {m}
        /\ Note("other_mount", 0)
        /\ UNCHANGED <<relState, peerUnits, provApp, reqApp, reqUnit, provUnit,
                       leader, provLeader, peerData, status, deferred,
                       shareSeen,
                       files, provUnitB,
                   provLeaderB>>

StopNext ==
    /\ Running
    /\ \/ \E i \in First : RelationCreated(i)
       \/ \E i \in First : PeerWritesOf(i, HookPeerKeys, HookPeerTexts)
       \/ \E i \in First : RelationChanged(i)
       \/ ConfigChangedOf(ThinConfigInputs)
       \/ OtherMount
       \/ Stop

StopSpec == Init /\ [][StopNext]_vars

\* ------------------------------------------------------- from join to mount
\* Every collaborator succeeds.
GoodEnvs == {e \in Envs : e.secret /\ e.mount /\ e.umount}

\* As Init, the provider unit the leader of its application.
LiveInit ==
    /\ relState = [i \in Rels |-> "none"]
    /\ peerUnits = [i \in Rels |-> 0]
    /\ provApp = [i \in Rels |-> EmptyBag]
    /\ reqApp = [i \in Rels |-> EmptyBag]
    /\ reqUnit = [i \in Rels |-> EmptyBag]
    /\ provUnit = [i \in Rels |-> EmptyBag]
    /\ leader \in BOOLEAN
    /\ provLeader = TRUE
    /\ peerData = EmptyBag
    /\ mounts = {}
    /\ status = Status("unknown", "")
    /\ deferred = {}
    /\ last = Step("init", 0)
    /\ shareSeen = {}
    /\ files = EmptyBag
    /\ provUnitB = [i \in Rels |-> EmptyBag]
    /\ provLeaderB = FALSE

\* No instance has been created yet.
BeforeIntegration == \A i \in Rels : relState[i] = "none"

\* config-changed before the application is integrated.
ConfigChangedFirst == BeforeIntegration /\ ConfigChangedOf(ThinConfigInputs)

\* The host creates instance i, the mountpoint being configured.
RelationCreatedConfigured(i) ==
    /\ Truthy(Get(get_state(Cur, "config"), "mountpoint"))
    /\ RelationCreated(i)

\* relation-changed on the provider unit, whose charm handles ShareRequested
\* by set_share with one of ds.
ProvServes(i, ds) ==
    /\ relState[i] = "alive"
    /\ \E d \in ds :
         LET S1 == ProvOnRelationChanged(
                       Begin(Cur, "prov_relation_changed", i), i)
         IN  Commit(IF S1.last.emitted = <<"ShareRequested">>
                    THEN set_share(S1, i, d)
                    ELSE S1)

\* relation-changed on the requirer unit is due for instance i: a unit of the
\* peer is there and the peer's bucket is not what the unit saw last.
RelationChangedDue(i) ==
    /\ peerUnits[i] > 0
    /\ WithoutCache(provApp[i]) # EvalOld(reqUnit[i])
    /\ RelationChangedIn(i, GoodEnvs)

\* The provider application has more than one unit.
ProviderUnits == MaxPeerUnits + 1

LiveNext ==
    \/ ConfigChangedFirst
    \/ \E i \in First : RelationCreatedConfigured(i)
    \/ \E i \in First : RelationJoinedUpTo(i, ProviderUnits)
    \/ \E i \in First : RelationChangedIn(i, GoodEnvs)
    \/ \E i \in First : ProvServes(i, Descriptors)
    \/ LeaderChange

\* The host delivers relation-changed to a unit whose peer's bucket has
\* changed: the provider's relation-changed and a relation-changed that is
\* due on the requirer are not put off for ever.
LiveSpec ==
    /\ LiveInit
    /\ [][LiveNext]_vars
    /\ \A i \in First : WF_vars(ProvServes(i, Descriptors))
    /\ \A i \in First : WF_vars(RelationChangedDue(i))

\* ------------------------------------------------ integrated again
\* The host creates instance i, the mountpoint being configured and the
\* instances before it ended.
RelationCreatedAgain(i) ==
    /\ Truthy(Get(get_state(Cur, "config"), "mountpoint"))
    /\ RelationCreatedNext(i)

\* relation-changed on the requirer unit while a unit of the peer is there,
\* every collaborator succeeding.
RelationChangedJoined(i) ==
    /\ peerUnits[i] > 0
    /\ RelationChangedIn(i, GoodEnvs)

\* The integration is made, removed and made again, one instance at a time.
AgainNext ==
    \/ ConfigChangedFirst
    \/ \E i \in Rels : RelationCreatedAgain(i)
    \/ \E i \in Rels : RelationJoined(i)
    \/ \E i \in Rels : RelationChangedJoined(i)
    \/ \E i \in Rels : ProvServes(i, Descriptors)
    \/ \E i \in Rels : RelationDepartedIn(i, GoodEnvs)
    \/ \E i \in Rels : RelationBroken(i)
    \/ LeaderChange

AgainSpec ==
    /\ LiveInit
    /\ [][AgainNext]_vars
    /\ \A i \in Rels : WF_vars(ProvServes(i, Descriptors))
    /\ \A i \in Rels : WF_vars(RelationChangedDue(i))

\* ------------------------------------------- keys that go and come back
\* One instance, the mountpoint configured and every collaborator succeeding:
\* each side sets and removes its keys, the peer's unit joins and departs, and
\* both units handle relation-changed.
ReturnNext ==
    \/ ConfigChangedFirst
    \/ \E i \in First : RelationCreatedConfigured(i)
    \/ \E i \in First : RelationJoinedUpTo(i, 1)
    \/ \E i \in First : RelationChangedIn(i, GoodEnvs)
    \/ \E i \in First : RelationDepartedIn(i, GoodEnvs)
    \/ \E i \in First : PeerWritesOf(i, HookPeerKeys, PeerTexts)
    \/ \E i \in First : RequirerWrites(i)
    \/ \E i \in First : ProvRelationChanged(i)
    \/ ProvLeaderChange

ReturnSpec == Init /\ [][ReturnNext]_vars

\* ------------------------------------------- the provider's two units
\* The state as the provider's second unit has it: its bucket and its
\* leadership where the first unit's are.
AsSecond(S) ==
    [S EXCEPT !.provUnit = S.provUnitB, !.provUnitB = S.provUnit,
              !.provLeader = S.provLeaderB, !.provLeaderB = S.provLeader]

\* relation-changed on the provider's second unit, which runs the same
\* handler.
ProvRelationChangedSecond(i) ==
    /\ relState[i] = "alive"
    /\ Commit(AsSecond(ProvOnRelationChanged(
                  AsSecond(Begin(Cur, "prov_relation_changed_second", i)), i)))

\* Leadership of the provider application goes to a unit or to none; at most
\* one unit holds it.
ProvLeaderMoves ==
    /\ \E a, b \in BOOLEAN :
         /\ ~(a /\ b)
         /\ <<a, b>> # <<provLeader, provLeaderB>>
         /\ provLeader' = a
         /\ provLeaderB' = b
    /\ Note("prov_leader_moves", 0)
    /\ UNCHANGED <<relState, peerUnits, provApp, reqApp, reqUnit, provUnit,
                   leader, peerData, mounts, status, deferred, shareSeen,
                   files, provUnitB>>

\* One instance at a time and the provider's two units. The requirer's leader
\* writes name by request_share and nothing removes it, so name appears once
\* in an instance's bucket.
LeadNext ==
    \/ \E i \in Rels : RelationCreatedNext(i)
    \/ \E i \in Rels : RelationBroken(i)
    \/ \E i \in Rels : RequestShare(i)
    \/ \E i \in Rels : LocalWrites(i)
    \/ \E i \in Rels : ProvRelationChanged(i)
    \/ \E i \in Rels : ProvRelationChangedSecond(i)
    \/ ProvLeaderMoves
    \/ LeaderChange

LeadSpec == Init /\ [][LeadNext]_vars

\* ------------------------------------------------------------ the manager
\* _mountpoint_to_autofs_id: the resolved path without its leading "/", every
\* other "/" as "-".
AutofsId(mountpoint) ==
    CASE mountpoint = "/data" -> "data"
      [] mountpoint = "/mnt" -> "mnt"

MapFile(mountpoint) == "/etc/auto." \o AutofsId(mountpoint)
MasterFile(mountpoint) == "/etc/auto.master.d/" \o AutofsId(mountpoint) \o ".autofs"

\* What a directory is in files.
Directory == <<"dir">>

\* CephFSInfo: a descriptor's fields with the secret's username and key.
FsInfos ==
    { [fsid |-> d.fsid, name |-> d.name, path |-> d.path,
       monitor_hosts |-> d.monitor_hosts, username |-> "ceph-fs-client",
       cephx_key |-> "k3y"] : d \in Descriptors }

Endpoint(fs_info) ==
    fs_info.username \o "@" \o fs_info.fsid \o "." \o fs_info.name
        \o "=" \o fs_info.path

\* `sub in text`, a text being the sequence of its pieces.
Contains(text, sub) ==
    \E n \in 0..(Len(text) - Len(sub)) : SubSeq(text, n + 1, n + Len(sub)) = sub

\* The reload of autofs: it succeeds, or raises a SystemdError whose str(e) is
\* text, word by word.
NotPermitted == <<"Operation", "not", "permitted">>
ReloadErrors ==
    { <<"error", "message">>,
      NotPermitted,
      <<"mount(2):">> \o NotPermitted \o <<"(1)">>,
      <<"Operation", "not", "supported">> }
Reloaded == [ok |-> TRUE, text |-> << >>]
Reloads == {Reloaded} \cup { [ok |-> FALSE, text |-> t] : t \in ReloadErrors }

\* systemd-detect-virt: its output, letter by letter, or a failure of the
\* command (CalledProcessError).
DetectFailed == [ok |-> FALSE, stdout |-> << >>]
Virts ==
    { [ok |-> TRUE, stdout |-> o] :
        o \in { <<"k", "v", "m">>, <<"l", "x", "c">>,
                <<"l", "x", "c", "-", "l", "i", "b", "v", "i", "r", "t">>,
                <<"n", "o", "n", "e">> } }
    \cup {DetectFailed}

\* (mutant) a detection that fails counts as a container.
supportedStrict(virt) ==
    IF ~virt.ok THEN FALSE ELSE ~Contains(virt.stdout, <<"l", "x", "c">>)

\* supported()
supported(virt) ==
    IF ~virt.ok THEN TRUE ELSE ~Contains(virt.stdout, <<"l", "x", "c">>)

\* The Error mount raises when the reload fails with the text reload.
MountFailure(fs_info, mountpoint, reload, virt) ==
    IF Contains(reload.text, NotPermitted) /\ ~supported(virt)
    THEN "Mounting CephFS shares not supported on LXD containers"
    ELSE "Failed to mount " \o Endpoint(fs_info) \o " at " \o mountpoint

\* (mutant) the mountpoint directory is removed before the reload.
umountEager(S, mountpoint, reload) ==
    LET gone == {MapFile(mountpoint), MasterFile(mountpoint), mountpoint}
        F1 == [p \in DOMAIN S.files \ gone |-> S.files[p]]
    IN  IF reload.ok
        THEN Call([S EXCEPT !.files = F1, !.mounts = @ \ {mountpoint}],
                  [op |-> "manager.umount", at |-> mountpoint, reload |-> reload,
                   error |-> NULL])
        ELSE Raise(Call([S EXCEPT !.files = F1],
                        [op |-> "manager.umount", at |-> mountpoint,
                         reload |-> reload,
                         error |-> "Failed to unmount " \o mountpoint]))

\* manager.mount
mount(S, fs_info, mountpoint, options, reload, virt) ==
    LET F1 == IF mountpoint \in DOMAIN S.files THEN S.files
              ELSE Update(S.files, [p \in {mountpoint} |-> Directory])
        mount_opts == <<"fstype=ceph", "mon_addr=" \o fs_info.monitor_hosts,
                        "secret=" \o fs_info.cephx_key>> \o options
        F2 == Update(F1, [p \in {MasterFile(mountpoint)} |->
                            <<"/-", MapFile(mountpoint)>>])
        F3 == Update(F2, [p \in {MapFile(mountpoint)} |->
                            <<mountpoint>> \o mount_opts \o <<Endpoint(fs_info)>>])
        S1 == [S EXCEPT !.files = F3]
    IN  IF reload.ok
        THEN Call([S1 EXCEPT !.mounts = @ \cup {mountpoint}],
                  [op |-> "manager.mount", at |-> mountpoint, reload |-> reload,
                   virt |-> virt, endpoint |-> Endpoint(fs_info),
                   error |-> NULL])
        ELSE Raise(Call(S1,
                  [op |-> "manager.mount", at |-> mountpoint, reload |-> reload,
                   virt |-> virt, endpoint |-> Endpoint(fs_info),
                   error |-> MountFailure(fs_info, mountpoint, reload, virt)]))

\* manager.umount
umount(S, mountpoint, reload) ==
    LET gone == {MapFile(mountpoint), MasterFile(mountpoint)}
        F1 == [p \in DOMAIN S.files \ gone |-> S.files[p]]
    IN  IF reload.ok
        THEN Call([S EXCEPT !.files = [p \in DOMAIN F1 \ {mountpoint} |-> F1[p]],
                            !.mounts = @ \ {mountpoint}],
                  [op |-> "manager.umount", at |-> mountpoint, reload |-> reload,
                   error |-> NULL])
        ELSE Raise(Call([S EXCEPT !.files = F1],
                        [op |-> "manager.umount", at |-> mountpoint,
                         reload |-> reload,
                         error |-> "Failed to unmount " \o mountpoint]))

OptionLists == { << >>, <<"noexec", "nosuid", "nodev", "ro">> }

\* mount is called.
ManagerMount ==
    \E fs_info \in FsInfos, mountpoint \in Mountpoints, options \in OptionLists,
       reload \in Reloads, virt \in Virts :
        Commit(mount(Begin(Cur, "manager.mount", 0), fs_info, mountpoint,
                     options, reload, virt))

\* umount is called.
ManagerUmount ==
    \E mountpoint \in Mountpoints, reload \in Reloads :
        Commit(umount(Begin(Cur, "manager.umount", 0), mountpoint, reload))

ManagerNext == ManagerMount \/ ManagerUmount

ManagerSpec == Init /\ [][ManagerNext]_vars

\* ------------------------------------------------------------------ claims
\* The frozen mountpoint, NULL when none is set.
FrozenMountpoint == Get(get_state(Cur, "config"), "mountpoint")

Mounting(calls) == \E n \in DOMAIN calls : calls[n].op = "mount"

\* C1: a relation-changed signal on the requirer unit, leader or not, emits
\* MountShare exactly when share_info is in the peer's bucket and not in the
\* cached snapshot, and emits nothing in every other case.
C1_MountShareIffAdded ==
    [][ last'.sig = "relation_changed" =>
          last'.emitted =
            IF /\ "share_info" \in DOMAIN provApp[last'.rel]
               /\ "share_info" \notin DOMAIN EvalOld(reqUnit[last'.rel])
            THEN <<"MountShare">> ELSE << >> ]_vars

C1_Witness ==
    /\ last.sig = "relation_changed"
    /\ last.emitted = <<"MountShare">>
    /\ ~leader

\* C2: once a relation-changed signal has been processed with share_info
\* present, a later relation-changed signal of the same instance with
\* share_info still present (at every such signal in between), whatever its
\* content, emits no event and does not mount.
C2_WriteOnceShareInfo ==
    [][ ( /\ last'.sig = "relation_changed"
          /\ last'.rel \in shareSeen
          /\ "share_info" \in DOMAIN provApp[last'.rel] )
        => /\ last'.emitted = << >>
           /\ ~Mounting(last'.calls)
           /\ mounts' = mounts ]_vars

C2_Witness ==
    /\ last.sig = "relation_changed"
    /\ "share_info" \in last.tx.changed
    /\ last.rel \in shareSeen
    /\ last.emitted = << >>

\* C3: every relation-departed signal emits exactly one UmountShare.
C3_DepartedEmitsUmount ==
    last.sig = "relation_departed" => last.emitted = <<"UmountShare">>

C3_Witness ==
    /\ last.sig = "relation_departed"
    /\ last.emitted = <<"UmountShare">>
    /\ ~leader
    /\ mounts = {}
    /\ "share_info" \notin DOMAIN provApp[last.rel]
    /\ "cache" \notin DOMAIN reqUnit[last.rel]

\* C4: a relation-joined signal emits ServerConnected exactly when the unit is
\* leader; it computes no Transaction and leaves the caches and the peer's
\* buckets as they were, and the requirer's buckets too but for the share
\* request that the handler of ServerConnected writes.
C4_JoinedForwardsOnly ==
    [][ last'.sig = "relation_joined" =>
          /\ last'.emitted = IF leader THEN <<"ServerConnected">> ELSE << >>
          /\ last'.tx = NoTransaction
          /\ reqUnit' = reqUnit
          /\ provUnit' = provUnit
          /\ provApp' = provApp
          /\ \/ reqApp' = reqApp
             \/ /\ leader
                /\ Truthy(FrozenMountpoint)
                /\ reqApp' = [reqApp EXCEPT ![last'.rel] =
                                Update(@, [k \in {"name"} |-> FrozenMountpoint])]
      ]_vars

C4_Witness ==
    /\ last.sig = "relation_joined"
    /\ last.emitted = <<"ServerConnected">>
    /\ "cache" \in DOMAIN reqUnit[last.rel]
    /\ "share_info" \in DOMAIN provApp[last.rel]

\* C5: a relation-changed signal on the provider unit emits ShareRequested
\* exactly when the unit is leader and name is in the requirer's bucket and
\* not in the cached snapshot; a leader writes the snapshot back in every case
\* (so a changed name is diffed and emits nothing), a non-leader does nothing.
C5_ShareRequestedIffLeaderAdded ==
    [][ last'.sig = "prov_relation_changed" =>
          /\ last'.emitted =
               IF /\ provLeader
                  /\ "name" \in DOMAIN reqApp[last'.rel]
                  /\ "name" \notin DOMAIN EvalOld(provUnit[last'.rel])
               THEN <<"ShareRequested">> ELSE << >>
          /\ provLeader =>
               /\ "cache" \in DOMAIN provUnit'[last'.rel]
               /\ Loads(provUnit'[last'.rel]["cache"]) = reqApp[last'.rel]
               /\ ("name" \in DOMAIN reqApp[last'.rel] \cap DOMAIN EvalOld(provUnit[last'.rel])
                   /\ reqApp[last'.rel]["name"] # EvalOld(provUnit[last'.rel])["name"])
                  => "name" \in last'.tx.changed
          /\ ~provLeader => provUnit' = provUnit /\ last'.tx = NoTransaction
      ]_vars

C5_Witness ==
    /\ last.sig = "prov_relation_changed"
    /\ provLeader
    /\ "name" \in last.tx.changed
    /\ last.emitted = << >>

ReqWriteCalls == {"request_share", "req_update_data"}
ProvWriteCalls == {"set_share", "prov_update_data"}

\* C6: request_share, set_share and _update_data called on a unit that is not
\* leader change no bucket of any instance and do not raise; request_share and
\* set_share called on the leader put their key in the bucket of the instance.
C6_LeaderGatedWrites ==
    [][ /\ (last'.sig \in ReqWriteCalls /\ ~leader)
            => reqApp' = reqApp /\ provApp' = provApp /\ ~last'.raised
        /\ (last'.sig \in ProvWriteCalls /\ ~provLeader)
            => reqApp' = reqApp /\ provApp' = provApp /\ ~last'.raised
        /\ (last'.sig \in ReqWriteCalls /\ reqApp' # reqApp) => leader
        /\ (last'.sig \in ProvWriteCalls /\ provApp' # provApp) => provLeader
        /\ (last'.sig = "request_share" /\ leader
                /\ relState[last'.rel] = "alive")
            => "name" \in DOMAIN reqApp'[last'.rel]
        /\ (last'.sig = "set_share" /\ provLeader
                /\ relState[last'.rel] = "alive")
            => "share_info" \in DOMAIN provApp'[last'.rel]
      ]_vars

C6_Witness ==
    /\ last.sig = "request_share"
    /\ ~leader
    /\ ~last.raised
    /\ relState[last.rel] = "alive"
    /\ "name" \notin DOMAIN reqApp[last.rel]
    /\ "share_info" \in DOMAIN provApp[last.rel]

\* ServerConnected was handled in the step (fresh from relation-joined, or
\* delivered again).
ServerConnectedHandled == last'.emitted = <<"ServerConnected">>

\* C7: ServerConnected handled while the frozen mountpoint is unset: the event
\* is deferred, the status is blocked "No configured mountpoint", and no
\* bucket is written.
C7_NoMountpointDefers ==
    [][ (ServerConnectedHandled /\ ~Truthy(FrozenMountpoint))
        => /\ last'.defer
           /\ last'.rel \in deferred'
           /\ status' = Status("blocked", "No configured mountpoint")
           /\ reqApp' = reqApp
           /\ provApp' = provApp
           /\ ~last'.raised ]_vars

C7_Witness ==
    /\ last.sig = "relation_joined"
    /\ last.emitted = <<"ServerConnected">>
    /\ last.defer
    /\ last.rel \in deferred
    /\ status = Status("blocked", "No configured mountpoint")

\* C8: ServerConnected of a live instance i handled by the leader while the
\* frozen mountpoint is M: afterwards the requirer's bucket of i holds name =
\* M, its other keys and the buckets of the other instances are as they were,
\* and the event is not deferred.
C8_RequestWritesName ==
    [][ ( /\ ServerConnectedHandled
          /\ leader
          /\ Truthy(FrozenMountpoint)
          /\ relState[last'.rel] = "alive" )
        => LET i == last'.rel IN
           /\ DOMAIN reqApp'[i] = DOMAIN reqApp[i] \cup {"name"}
           /\ reqApp'[i]["name"] = FrozenMountpoint
           /\ \A k \in DOMAIN reqApp[i] \ {"name"} : reqApp'[i][k] = reqApp[i][k]
           /\ \A j \in Rels \ {i} : reqApp'[j] = reqApp[j]
           /\ provApp' = provApp
           /\ ~last'.defer
           /\ ~last'.raised
           /\ deferred' \subseteq deferred ]_vars

C8_Witness ==
    /\ last.emitted = <<"ServerConnected">>
    /\ leader
    /\ DOMAIN reqApp[last.rel] = {"name", "extra"}
    /\ reqApp[last.rel]["name"] = "/data"
    /\ \E j \in Rels \ {last.rel} :
          relState[j] = "alive" /\ DOMAIN reqApp[j] = {"extra"}

\* C9: a ServerConnected handled while the mountpoint is unset is kept
\* (deferred); once the mountpoint is set, with the deferred event delivered
\* again, the requirer's bucket of the instance comes to hold name = the
\* mountpoint unless the unit lost leadership or the instance ended; and with
\* the mountpoint set no event is deferred any more.
C9_DeferralNotLoss ==
    /\ [][ (ServerConnectedHandled /\ ~Truthy(FrozenMountpoint))
            => last'.rel \in deferred' ]_vars
    /\ \A i \in Rels :
          (i \in deferred /\ Truthy(FrozenMountpoint))
            ~> \/ /\ Truthy(FrozenMountpoint)
                  /\ Get(reqApp[i], "name") = FrozenMountpoint
               \/ ~leader
               \/ relState[i] # "alive"
    /\ [][ Truthy(FrozenMountpoint) => deferred' \subseteq deferred ]_vars

C9_Witness ==
    /\ last.sig = "redeliver"
    /\ ~last.defer
    /\ leader
    /\ relState[last.rel] = "alive"
    /\ last.rel \notin deferred
    /\ Get(reqApp[last.rel], "name") = FrozenMountpoint

\* C10: a deferred ServerConnected delivered again after the peer of its
\* instance has departed, or after the instance has ended, raises no error and
\* writes no share request.
C10_RedeliveryChecksPeer ==
    [][ ( /\ last'.sig = "redeliver"
          /\ \/ peerUnits[last'.rel] = 0
             \/ relState[last'.rel] # "alive" )
        => ~last'.raised /\ reqApp' = reqApp ]_vars

Umounting(calls) == \E n \in DOMAIN calls : calls[n].op = "umount"

\* C11: UmountShare delivered (relation-departed), whatever the mounts and the
\* frozen config: umount is called exactly when something is mounted at the
\* frozen mountpoint, and unless the umount failed the handler completes with
\* status waiting "Waiting for CephFS share".
C11_UmountIffMounted ==
    [][ last'.sig = "relation_departed"
        => /\ last'.emitted = <<"UmountShare">>
           /\ Umounting(last'.calls) <=> FrozenMountpoint \in mounts
           /\ ~(Umounting(last'.calls) /\ FrozenMountpoint \in mounts')
                => /\ ~last'.raised
                   /\ status' = Status("waiting", "Waiting for CephFS share")
      ]_vars

\* The JSON text named t says the descriptor d (in whatever field order).
Says(t, d) ==
    /\ IsJson(t)
    /\ {TextOf(t)[n] : n \in DOMAIN TextOf(t)}
         = {DescPairs(d)[n] : n \in DOMAIN DescPairs(d)}

FrozenFlag(k) == Get(get_state(Cur, "config"), k) = "true"

\* C12: MountShare handled with a frozen mountpoint M not mounted yet, the
\* secret found and the mount succeeding: mount is called exactly once, at M,
\* with the fields of the descriptor the peer published and the options the
\* frozen flags give (noexec/exec, nosuid/suid, nodev/dev, ro/rw), and the
\* status becomes active "CephFS share mounted at M".
C12_MountShareSuccess ==
    [][ ( /\ last'.sig = "relation_changed"
          /\ last'.emitted = <<"MountShare">>
          /\ Truthy(FrozenMountpoint)
          /\ FrozenMountpoint \notin mounts
          /\ ~last'.raised
          /\ status' # Status("blocked", MountError) )
        => \E d \in Descriptors :
             /\ Says(provApp[last'.rel]["share_info"], d)
             /\ last'.calls =
                  << [op |-> "get_secret", id |-> d.auth_id, ok |-> TRUE],
                     [op |-> "mount", at |-> FrozenMountpoint,
                      fsid |-> d.fsid, name |-> d.name, path |-> d.path,
                      monitor_hosts |-> d.monitor_hosts,
                      options |->
                        << IF FrozenFlag("noexec") THEN "noexec" ELSE "exec",
                           IF FrozenFlag("nosuid") THEN "nosuid" ELSE "suid",
                           IF FrozenFlag("nodev") THEN "nodev" ELSE "dev",
                           IF FrozenFlag("read-only") THEN "ro" ELSE "rw" >>,
                      ok |-> TRUE] >>
             /\ status' = Status("active",
                                 "CephFS share mounted at " \o FrozenMountpoint)
             /\ mounts' = mounts \cup {FrozenMountpoint}
      ]_vars

C12_Witness ==
    /\ last.sig = "relation_changed"
    /\ last.emitted = <<"MountShare">>
    /\ Len(last.calls) = 2
    /\ last.calls[2].op = "mount"
    /\ last.calls[2].at = "/mnt"
    /\ last.calls[2].fsid = DescB.fsid
    /\ last.calls[2].options = <<"noexec", "suid", "dev", "ro">>
    /\ status = Status("active", "CephFS share mounted at /mnt")
    /\ mounts = {"/mnt"}

\* The call of `op` in `calls` that failed, if any.
Failed(calls, op) == \E n \in DOMAIN calls : calls[n].op = op /\ ~calls[n].ok

Count(calls, op) == Cardinality({n \in DOMAIN calls : calls[n].op = op})

ErrorOf(op) ==
    CASE op = "install" -> InstallError
      [] op = "mount" -> MountError
      [] op = "umount" -> UmountError

\* C13: when install (install hook), mount (MountShare) or umount
\* (UmountShare) fails with the manager's Error, the handler completes with
\* status blocked carrying the error's message; it does not crash, the event
\* is not deferred and the call is not made again.
C13_FailuresAreTerminal ==
    [][ \A op \in {"install", "mount", "umount"} :
          Failed(last'.calls, op)
          => /\ status' = Status("blocked", ErrorOf(op))
             /\ ~last'.raised
             /\ ~last'.defer
             /\ deferred' = deferred
             /\ Count(last'.calls, op) = 1
             /\ mounts' = mounts ]_vars

C13_Witness ==
    /\ last.sig = "relation_departed"
    /\ last.emitted = <<"UmountShare">>
    /\ Failed(last.calls, "umount")
    /\ status = Status("blocked", UmountError)
    /\ mounts # {}

FrozenConfig == get_state(Cur, "config")

ConfigKeys == {"mountpoint"} \cup {MOUNT_OPTS[n] : n \in DOMAIN MOUNT_OPTS}

\* C14: the first config-changed that carries a mountpoint stores the supplied
\* mountpoint and flags; a field of the frozen config that is non-null keeps
\* its value through every later config-changed, whatever it carries.
C14_FrozenWriteOnce ==
    [][ LET old == FrozenConfig
            new == FrozenConfig'
        IN  /\ \A k \in ConfigKeys :
                  Get(old, k) # NULL => Get(new, k) = Get(old, k)
            /\ old = EmptyBag
               => \A cfg \in AllConfigInputs :
                    (Truthy(cfg["mountpoint"]) /\ ConfigChangedOf({cfg}))
                    => /\ DOMAIN new = ConfigKeys
                       /\ \A k \in ConfigKeys : new[k] = cfg[k]
      ]_vars

C14_Witness ==
    /\ last.sig = "config_changed"
    /\ status = Status("blocked", "No configured mountpoint")
    /\ DOMAIN FrozenConfig = ConfigKeys
    /\ FrozenConfig["mountpoint"] = "/mnt"
    /\ FrozenConfig["noexec"] = "false"
    /\ FrozenConfig["nosuid"] = "true"
    /\ FrozenConfig["nodev"] = NULL
    /\ FrozenConfig["read-only"] = "false"

\* The two snapshots _eval compares for instance i: the cached one and the
\* remote bucket's.
OldSnapshot(i) == EvalOld(reqUnit[i])
NewSnapshot(i) == WithoutCache(provApp[i])

\* C15: for every cached and current snapshot the Transaction's added, changed
\* and deleted are pairwise disjoint; added = keys(new) \ keys(old), deleted =
\* keys(old) \ keys(new), changed = the common keys whose values differ, a
\* common key with the same value is in none; for disjoint key sets added =
\* keys(new), deleted = keys(old), changed = {}.
C15_TransactionClassification ==
    [][ last'.sig = "relation_changed"
        => LET old == OldSnapshot(last'.rel)
               new == NewSnapshot(last'.rel)
               tx == last'.tx
           IN  /\ tx.added \cap tx.changed = {}
               /\ tx.added \cap tx.deleted = {}
               /\ tx.changed \cap tx.deleted = {}
               /\ \A k \in DiffKeys \cup DOMAIN old \cup DOMAIN new :
                    /\ k \in tx.added
                         <=> (k \in DOMAIN new /\ k \notin DOMAIN old)
                    /\ k \in tx.deleted
                         <=> (k \in DOMAIN old /\ k \notin DOMAIN new)
                    /\ k \in tx.changed
                         <=> ( /\ k \in DOMAIN old
                               /\ k \in DOMAIN new
                               /\ old[k] # new[k] )
               /\ tx.added \cup tx.changed \cup tx.deleted
                    \subseteq DOMAIN old \cup DOMAIN new
               /\ DOMAIN old \cap DOMAIN new = {}
                    => /\ tx.added = DOMAIN new
                       /\ tx.deleted = DOMAIN old
                       /\ tx.changed = {}
      ]_vars

C15_Witness ==
    /\ last.sig = "relation_changed"
    /\ last.tx = [added |-> {"share_info"}, changed |-> {"extra"},
                  deleted |-> {"name"}]

\* What the value v of key k says once decoded: share_info holds a JSON text,
\* the other keys plain strings.
Decoded(k, v) == IF k = "share_info" /\ IsJson(v) THEN Loads(TextOf(v)) ELSE v

\* C16: if the cached and the current snapshot are equal value-wise the
\* Transaction is all-empty, in whatever order either was written; a key whose
\* text changed while its decoded value is the same (the fields of share_info
\* in another order) is not in changed.
C16_ValueLevelEquality ==
    [][ last'.sig = "relation_changed"
        => LET old == OldSnapshot(last'.rel)
               new == NewSnapshot(last'.rel)
               tx == last'.tx
           IN  /\ ( /\ DOMAIN old = DOMAIN new
                    /\ \A k \in DOMAIN old :
                          Decoded(k, old[k]) = Decoded(k, new[k]) )
                  => tx = NoTransaction
               /\ \A k \in tx.changed :
                      Decoded(k, old[k]) # Decoded(k, new[k])
      ]_vars

\* C17: right after a relation-changed signal of an instance, the peer's
\* bucket being what that signal saw, a second relation-changed of the
\* instance computes an all-empty Transaction, emits no event, calls nothing
\* and leaves the cache as it is.
C17_DiffIdempotent ==
    last.sig = "relation_changed"
    => \A env \in MountEnvs :
         LET i == last.rel
             S2 == ReqOnRelationChanged(Begin(Cur, "relation_changed", i), i, env)
         IN  /\ S2.last.tx = NoTransaction
             /\ S2.last.emitted = << >>
             /\ S2.last.calls = << >>
             /\ S2.reqUnit = reqUnit

\* After an evaluation that found all three kinds of difference.
C17_Witness ==
    /\ last.sig = "relation_changed"
    /\ last.tx.added # {}
    /\ last.tx.changed # {}
    /\ last.tx.deleted # {}
    /\ last.emitted = <<"MountShare">>
    /\ "cache" \in DOMAIN provApp[last.rel]

\* The snapshot stored in the unit bucket `unitBag`.
StoredCache(unitBag) == Loads(unitBag["cache"])

\* C18: after every evaluation (a relation-changed on the requirer unit, one
\* on a leader provider unit) the stored cache is the peer's current snapshot
\* without the key cache, whether or not an event was emitted.
C18_CacheIsLastSeen ==
    /\ last.sig = "relation_changed"
       => /\ "cache" \in DOMAIN reqUnit[last.rel]
          /\ StoredCache(reqUnit[last.rel])
               = [k \in DOMAIN provApp[last.rel] \ {"cache"} |->
                     provApp[last.rel][k]]
    /\ (last.sig = "prov_relation_changed" /\ provLeader)
       => /\ "cache" \in DOMAIN provUnit[last.rel]
          /\ StoredCache(provUnit[last.rel])
               = [k \in DOMAIN reqApp[last.rel] \ {"cache"} |->
                     reqApp[last.rel][k]]

C18_Witness ==
    /\ last.sig = "relation_changed"
    /\ last.emitted = << >>
    /\ last.tx = [added |-> {}, changed |-> {"share_info"}, deleted |-> {}]
    /\ "cache" \in DOMAIN provApp[last.rel]
    /\ StoredCache(reqUnit[last.rel]) = [k \in {"share_info"} |-> "B1"]
    /\ provLeader
    /\ "cache" \in DOMAIN provUnit[last.rel]
    /\ StoredCache(provUnit[last.rel]) = reqApp[last.rel]
    /\ DOMAIN reqApp[last.rel] = {"name", "extra"}

\* C19: the key cache of the peer's bucket is left out of the new snapshot:
\* it is in none of added, changed, deleted of any Transaction; a
\* relation-changed whose peer bucket differs from the cached snapshot by the
\* key cache alone computes an all-empty Transaction and emits nothing; an
\* event is emitted only for share_info; fetch_data returns, for every live
\* instance, the peer's bucket without the key cache.
C19_CacheNotSemantic ==
    [][ /\ last'.sig = "relation_changed"
           => LET i == last'.rel
                  tx == last'.tx
              IN  /\ "cache" \notin tx.added \cup tx.changed \cup tx.deleted
                  /\ OldSnapshot(i)
                       = [k \in DOMAIN provApp[i] \ {"cache"} |-> provApp[i][k]]
                     => tx = NoTransaction /\ last'.emitted = << >>
                  /\ last'.emitted # << >>
                     => /\ "share_info" \in DOMAIN provApp[i]
                        /\ "share_info" \notin DOMAIN OldSnapshot(i)
        /\ last'.sig = "fetch_data"
           => LET returned == last'.calls[1].returned
              IN  /\ DOMAIN returned = {i \in Rels : relState[i] = "alive"}
                  /\ \A i \in DOMAIN returned :
                       /\ "cache" \notin DOMAIN returned[i]
                       /\ DOMAIN returned[i] = DOMAIN provApp[i] \ {"cache"}
                       /\ \A k \in DOMAIN returned[i] :
                            returned[i][k] = provApp[i][k]
      ]_vars

C19_Witness ==
    /\ last.sig = "fetch_data"
    /\ "cache" \in DOMAIN provApp[1]
    /\ "cache" \in DOMAIN reqUnit[1]
    /\ StoredCache(reqUnit[1]) = [k \in {"share_info"} |-> "A2"]
    /\ last.calls[1].returned[1] = [k \in {"share_info"} |-> "A2"]

\* C20: after a leader provider's set_share(i, d) on a live instance, for any
\* descriptor d (none is refused), the provider's bucket of i holds share_info
\* = the serialization of d, and the descriptor read back from it for a mount
\* event has d's fsid, name, path, monitor_hosts and auth_id.
C20_SetShareRoundTrip ==
    [][ \A i \in Rels : \A d \in AnyDescriptors :
          ( /\ provLeader
            /\ relState[i] = "alive"
            /\ SetShareOf(i, {d}) )
          => /\ ~last'.raised
             /\ "share_info" \in DOMAIN provApp'[i]
             /\ IsJson(provApp'[i]["share_info"])
             /\ TextOf(provApp'[i]["share_info"]) = DescPairs(d)
             /\ ~ShareInfoFails(Cur, i)'
             /\ DOMAIN ShareInfo(Cur, i)' = DOMAIN d
             /\ \A f \in DOMAIN d : ShareInfo(Cur, i)'[f] = d[f]
             /\ \A j \in Rels \ {i} : provApp'[j] = provApp[j]
      ]_vars

C20_Witness ==
    /\ last.sig = "set_share"
    /\ provLeader
    /\ provApp[last.rel] = [k \in {"share_info"} |-> "N1"]
    /\ ShareInfo(Cur, last.rel) = DescNone

\* C21: a relation-changed signal of instance A leaves the cache and the
\* buckets of every other instance as they were, writes A's cache from A's
\* peer bucket, and emits MountShare exactly when share_info is in A's peer
\* bucket and not in A's cached snapshot, whatever the other instances hold.
C21_InstancesIndependent ==
    [][ last'.sig = "relation_changed"
        => LET a == last'.rel IN
           /\ \A b \in Rels \ {a} :
                /\ reqUnit'[b] = reqUnit[b]
                /\ provUnit'[b] = provUnit[b]
                /\ reqApp'[b] = reqApp[b]
                /\ provApp'[b] = provApp[b]
           /\ StoredCache(reqUnit'[a]) = provApp[a]
           /\ last'.tx.added = DOMAIN provApp[a] \ DOMAIN OldSnapshot(a)
           /\ last'.emitted =
                IF /\ "share_info" \in DOMAIN provApp[a]
                   /\ "share_info" \notin DOMAIN OldSnapshot(a)
                THEN <<"MountShare">> ELSE << >>
      ]_vars

\* A's share_info is new while the other instance's has been seen already,
\* with another text.
C21_Witness ==
    /\ last.sig = "relation_changed"
    /\ last.rel = 2
    /\ last.emitted = <<"MountShare">>
    /\ relState[1] = "alive"
    /\ provApp[1] = [k \in {"share_info"} |-> "A1"]
    /\ "cache" \in DOMAIN reqUnit[1]
    /\ StoredCache(reqUnit[1]) = provApp[1]
    /\ provApp[2] = [k \in {"share_info"} |-> "B1"]

RelationHooks ==
    {"relation_joined", "relation_changed", "relation_departed",
     "prov_relation_changed"}

\* The semantic event each hook can emit.
EventOf(sig) ==
    CASE sig = "relation_joined" -> "ServerConnected"
      [] sig = "relation_changed" -> "MountShare"
      [] sig = "relation_departed" -> "UmountShare"
      [] OTHER -> "ShareRequested"

\* C23: a relation-joined, relation-changed or relation-departed hook on a
\* requirer, and a relation-changed hook on a provider, emits no semantic
\* event or exactly one, never two.
C23_AtMostOneEvent ==
    last.sig \in RelationHooks
    => /\ Len(last.emitted) <= 1
       /\ \A n \in DOMAIN last.emitted : last.emitted[n] = EventOf(last.sig)

\* relation-changed on the requirer with two keys new at once: one MountShare.
C23_Witness ==
    /\ last.sig = "relation_changed"
    /\ last.tx.added = {"share_info", "extra"}
    /\ last.emitted = <<"MountShare">>

\* The steps in which code of the requirer side runs.
RequirerSteps ==
    {"relation_joined", "relation_changed", "relation_departed", "redeliver",
     "request_share", "config_changed"}

\* Bag b2 is bag b1 but for the key k.
SameBut(b1, b2, k) ==
    /\ DOMAIN b1 \ {k} = DOMAIN b2 \ {k}
    /\ \A x \in DOMAIN b1 \ {k} : b1[x] = b2[x]

\* C24: the requirer never changes the peer's buckets (share_info included);
\* it writes the key name in its own application bucket and the key cache in
\* its own unit bucket, and nothing else.
C24_RequirerFrame ==
    [][ last'.sig \in RequirerSteps
        => /\ provApp' = provApp
           /\ provUnit' = provUnit
           /\ \A i \in Rels :
                /\ SameBut(reqApp[i], reqApp'[i], "name")
                /\ SameBut(reqUnit[i], reqUnit'[i], "cache") ]_vars

\* relation-changed has written the cache while the peer's bucket, which
\* holds share_info and a key cache of its own, and the requirer's
\* application bucket, with name and another key, are as they were.
C24_Witness ==
    /\ last.sig = "relation_changed"
    /\ last.emitted = <<"MountShare">>
    /\ DOMAIN provApp[1] = {"share_info", "cache"}
    /\ DOMAIN reqApp[1] = {"name", "extra"}
    /\ "cache" \in DOMAIN reqUnit[1]

\* C25: MountShare handled with a mountpoint frozen and nothing mounted
\* there, the published share_info not a descriptor (not JSON, or a field
\* missing): the handler completes with a blocked status and mount is not
\* called.
C25_MalformedShareBlocks ==
    ( /\ last.sig = "relation_changed"
      /\ last.emitted = <<"MountShare">>
      /\ ShareInfoFails(Cur, last.rel)
      /\ FrozenMountpoint # NULL
      /\ FrozenMountpoint \notin mounts )
    => /\ ~last.raised
       /\ status.kind = "blocked"
       /\ ~Mounting(last.calls)

\* C26: in every state, a config-changed whose config has no mountpoint
\* (unset or empty) ends with status blocked "No configured mountpoint" and
\* the frozen config as it was, no flag recorded; one whose config has a
\* mountpoint ends with status waiting "Waiting for CephFS share".
C26_ConfigChangedOutcome ==
    \A cfg \in AllConfigInputs :
        LET T == OnConfigChanged(Begin(Cur, "config_changed", 0), cfg) IN
        /\ ~T.last.raised
        /\ ~Truthy(cfg["mountpoint"])
           => /\ T.status = Status("blocked", "No configured mountpoint")
              /\ get_state(T, "config") = FrozenConfig
              /\ T.peerData = peerData
        /\ Truthy(cfg["mountpoint"])
           => T.status = Status("waiting", "Waiting for CephFS share")

\* A config without mountpoint has arrived first, its flags set: blocked, and
\* nothing recorded.
C26_Witness ==
    /\ last.sig = "config_changed"
    /\ status = Status("blocked", "No configured mountpoint")
    /\ FrozenConfig = EmptyBag

\* C27: upgrade-charm runs the package installation as install does: install
\* is called, and the status is maintenance "Installing required packages"
\* when it succeeds, blocked with the error's message when it fails.
C27_UpgradeInstalls ==
    last.sig = "upgrade_charm"
    => /\ Count(last.calls, "install") = 1
       /\ status = IF Failed(last.calls, "install")
                   THEN Status("blocked", InstallError)
                   ELSE Status("maintenance", "Installing required packages")

\* The position of the first call of op in calls, 0 when there is none.
FirstCall(calls, op) ==
    IF Count(calls, op) = 0 THEN 0
    ELSE CHOOSE n \in DOMAIN calls :
           calls[n].op = op /\ \A m \in DOMAIN calls : calls[m].op = op => n <= m

\* C28: the stop hook calls umount exactly once when something is mounted at
\* the frozen mountpoint and not at all otherwise; after that it removes the
\* packages exactly when no CephFS mount remains on the machine; when neither
\* call fails it ends with status maintenance "Shutting down...".
C28_StopCleansUp ==
    [][ last'.sig = "stop"
        => /\ Count(last'.calls, "umount")
                = IF FrozenMountpoint \in mounts THEN 1 ELSE 0
           /\ \A n \in DOMAIN last'.calls :
                last'.calls[n].op = "umount" => last'.calls[n].at = FrozenMountpoint
           /\ Count(last'.calls, "remove") = IF mounts' = {} THEN 1 ELSE 0
           /\ Count(last'.calls, "remove") = 1 /\ Count(last'.calls, "umount") = 1
                => FirstCall(last'.calls, "umount") < FirstCall(last'.calls, "remove")
           /\ (~Failed(last'.calls, "umount") /\ ~Failed(last'.calls, "remove"))
                => /\ ~last'.raised
                   /\ status' = Status("maintenance", "Shutting down...")
      ]_vars

\* Stopped with the share mounted and another CephFS mount on the machine:
\* the share was unmounted, the packages were kept.
C28_Witness ==
    /\ last.sig = "stop"
    /\ Count(last.calls, "umount") = 1
    /\ Count(last.calls, "remove") = 0
    /\ FrozenMountpoint = "/data"
    /\ mounts = {"/mnt"}
    /\ status = Status("maintenance", "Shutting down...")

\* The share is mounted at the frozen mountpoint and the status is active.
MountedActive ==
    /\ Truthy(FrozenMountpoint)
    /\ FrozenMountpoint \in mounts
    /\ status = Status("active", "CephFS share mounted at " \o FrozenMountpoint)

\* The peer of instance i has joined and the unit, leader then, has handled
\* ServerConnected.
JoinedAsLeader(i) ==
    /\ last.sig = "relation_joined"
    /\ last.rel = i
    /\ last.emitted = <<"ServerConnected">>

\* C29: the mountpoint configured before the integration, the requirer unit
\* leader when its peer joins, the provider answering ShareRequested with
\* set_share, secret and mount succeeding, relation-changed delivered fairly:
\* after the peer has joined the share is eventually mounted at the mountpoint
\* with status active, and no step taken while integrated makes the status
\* blocked.
C29_JoinLeadsToMount ==
    /\ \A i \in First : JoinedAsLeader(i) ~> MountedActive
    /\ [][ (\E i \in Rels : relState[i] = "alive")
             => (status'.kind = "blocked" => status.kind = "blocked") ]_vars

\* The peer of instance i has joined, the unit, leader then, has handled
\* ServerConnected, and the provider has not published yet.
JoinedUnserved(i) ==
    /\ JoinedAsLeader(i)
    /\ "share_info" \notin DOMAIN provApp[i]

\* C30: when the integration is removed (the peer departs, the instance
\* ends) the share is unmounted and the status becomes waiting, and stays so
\* as the instance ends; and when the peer of an instance has joined, a later
\* instance as well as the first, the share is eventually mounted with
\* status active (unless the peer departs first).
C30_Reintegration ==
    /\ [][ last'.sig = "relation_departed"
           => /\ Count(last'.calls, "umount")
                   = IF FrozenMountpoint \in mounts THEN 1 ELSE 0
              /\ FrozenMountpoint \notin mounts'
              /\ status' = Status("waiting", "Waiting for CephFS share") ]_vars
    /\ [][ last'.sig = "relation_broken"
           => status' = status /\ mounts' = mounts ]_vars
    /\ \A i \in Rels :
          JoinedUnserved(i) ~> (MountedActive \/ peerUnits[i] = 0)

\* The share of the second instance is mounted: the request was written,
\* the provider published, MountShare was handled.
C30_Witness ==
    /\ relState[1] = "gone"
    /\ relState[2] = "alive"
    /\ last.sig = "relation_changed"
    /\ last.rel = 2
    /\ last.emitted = <<"MountShare">>
    /\ Get(reqApp[2], "name") = FrozenMountpoint
    /\ "share_info" \in DOMAIN provApp[2]
    /\ MountedActive

\* C31: mount is never called while something is mounted at the frozen
\* mountpoint; a MountShare handled in that state calls neither get_secret
\* nor mount, completes, and leaves the status and the mounts as they were.
C31_NoDoubleMount ==
    [][ /\ Mounting(last'.calls) => FrozenMountpoint \notin mounts
        /\ ( /\ last'.sig = "relation_changed"
             /\ last'.emitted = <<"MountShare">>
             /\ FrozenMountpoint \in mounts )
           => /\ last'.calls = << >>
              /\ ~last'.raised
              /\ status' = status
              /\ mounts' = mounts ]_vars

\* The second instance publishes while the share of the first is mounted.
C31_Witness ==
    /\ last.sig = "relation_changed"
    /\ last.rel = 2
    /\ last.emitted = <<"MountShare">>
    /\ last.calls = << >>
    /\ FrozenMountpoint \in mounts
    /\ status = Status("active", "CephFS share mounted at " \o FrozenMountpoint)
    /\ shareSeen = {1, 2}

\* C32: when the reload of autofs fails during mount, mount raises Error
\* "Failed to mount <endpoint> at <mountpoint>", but when the failure's text
\* contains "Operation not permitted" and systemd-detect-virt reports lxc
\* the message is "Mounting CephFS shares not supported on LXD containers";
\* a detection that fails gives the ordinary message.
C32_MountErrorMapping ==
    (last.sig = "manager.mount" /\ ~last.calls[1].reload.ok)
    => LET c == last.calls[1]
           lxc == c.virt.ok /\ Contains(c.virt.stdout, <<"l", "x", "c">>)
       IN  /\ last.raised
           /\ c.error = IF Contains(c.reload.text, NotPermitted) /\ lxc
                        THEN "Mounting CephFS shares not supported on LXD containers"
                        ELSE "Failed to mount " \o c.endpoint \o " at " \o c.at
           /\ ~c.virt.ok
              => c.error = "Failed to mount " \o c.endpoint \o " at " \o c.at

\* "Operation not permitted" inside a longer text, on an LXC container.
C32_Witness ==
    /\ last.sig = "manager.mount"
    /\ last.raised
    /\ last.calls[1].reload.text = <<"mount(2):">> \o NotPermitted \o <<"(1)">>
    /\ last.calls[1].virt = [ok |-> TRUE, stdout |-> <<"l", "x", "c">>]
    /\ last.calls[1].error = "Mounting CephFS shares not supported on LXD containers"


\* C33: umount removes the mountpoint's autofs map file and master file,
\* whether or not they exist, then reloads autofs, and removes the mountpoint
\* directory only after a reload that succeeds; it raises Error
\* "Failed to unmount <mountpoint>" exactly when the reload fails, and then the
\* two files are gone while the mountpoint directory is as it was.
C33_UmountOrder ==
    [][ last'.sig = "manager.umount"
        => LET c == last'.calls[1]
               m == c.at
               maps == {MapFile(m), MasterFile(m)}
           IN  /\ maps \cap DOMAIN files' = {}
               /\ last'.raised <=> ~c.reload.ok
               /\ c.reload.ok
                  => /\ c.error = NULL
                     /\ m \notin DOMAIN files'
               /\ ~c.reload.ok
                  => /\ c.error = "Failed to unmount " \o m
                     /\ (m \in DOMAIN files') <=> (m \in DOMAIN files)
               /\ \A p \in DOMAIN files \ (maps \cup {m}) :
                      p \in DOMAIN files' /\ files'[p] = files[p] ]_vars

\* A failed reload: the files of /data are gone, its directory is still there,
\* and the other mountpoint's files are untouched.
C33_Witness ==
    /\ last.sig = "manager.umount"
    /\ last.raised
    /\ last.calls[1].at = "/data"
    /\ last.calls[1].error = "Failed to unmount /data"
    /\ DOMAIN files = {"/data", "/mnt", MapFile("/mnt"), MasterFile("/mnt")}


\* C34: the first-appearance rule is relative to the cache, not to history.
\* A relation-changed leaves in the unit's cache exactly the keys the other
\* side's bucket holds, so once share_info was removed and a relation-changed
\* was handled, the next relation-changed that finds share_info emits
\* MountShare again; likewise name and ShareRequested on the provider's
\* leader.
C34_ReappearanceRetriggers ==
    [][ /\ last'.sig = "relation_changed"
           => LET i == last'.rel
              IN  /\ DOMAIN EvalOld(reqUnit'[i]) = DOMAIN provApp[i] \ {"cache"}
                  /\ ("share_info" \in DOMAIN provApp[i] /\ i \notin shareSeen)
                     => last'.emitted = <<"MountShare">>
        /\ (last'.sig = "prov_relation_changed" /\ provLeader)
           => LET i == last'.rel
              IN  /\ DOMAIN EvalOld(provUnit'[i]) = DOMAIN reqApp[i] \ {"cache"}
                  /\ ( /\ "name" \in DOMAIN reqApp[i]
                       /\ "name" \notin DOMAIN EvalOld(provUnit[i]) )
                     => last'.emitted = <<"ShareRequested">> ]_vars

\* MountShare is emitted while the share is still mounted from the earlier
\* appearance of share_info.
C34_Witness ==
    /\ last.sig = "relation_changed"
    /\ last.emitted = <<"MountShare">>
    /\ "share_info" \in last.tx.added
    /\ last.calls = << >>
    /\ FrozenMountpoint \in mounts


\* C35: a peer that joins again on the same instance does not bring the mount
\* back. A relation-changed on an instance whose cache holds share_info emits
\* no MountShare and mounts nothing, whatever joined or departed in between;
\* the only step that mounts is a relation-changed that finds share_info
\* missing from the cache (share_info was removed and added again, or the
\* instance is new).
C35_RejoinDoesNotRemount ==
    [][ /\ ( /\ last'.sig = "relation_changed"
             /\ "share_info" \in DOMAIN EvalOld(reqUnit[last'.rel]) )
           => /\ last'.emitted = << >>
              /\ mounts' = mounts
        /\ (mounts' \ mounts # {})
           => /\ last'.sig = "relation_changed"
              /\ "share_info" \notin DOMAIN EvalOld(reqUnit[last'.rel])
        /\ last'.sig \in {"relation_joined", "relation_departed"}
           => reqUnit' = reqUnit ]_vars

\* The share was mounted and then unmounted by a departure; the peer's unit
\* is back, share_info is published as before, and relation-changed has done
\* nothing.
C35_Witness ==
    /\ last.sig = "relation_changed" /\ last.rel = 1
    /\ last.emitted = << >>
    /\ last.tx = [added |-> {}, changed |-> {}, deleted |-> {}]
    /\ "share_info" \in DOMAIN provApp[1]
    /\ "name" \in DOMAIN reqApp[1]
    /\ peerUnits[1] = 1
    /\ mounts = {}


\* C36: for one instance and one appearance of name, ShareRequested is
\* emitted at most once over the units of the provider application, also
\* when leadership moves between relation-changed signals. A unit's cache
\* holds name only once that unit, as leader, has handled a relation-changed
\* with name in the bucket, which emitted ShareRequested; so no step emits
\* ShareRequested for an instance while a unit's cache holds its name.
C36_RequestedOncePerApplication ==
    [][ last'.emitted = <<"ShareRequested">>
        => /\ "name" \notin DOMAIN EvalOld(provUnit[last'.rel])
           /\ "name" \notin DOMAIN EvalOld(provUnitB[last'.rel]) ]_vars


\* C37: the status agrees with the mount state: after any handler, the status
\* is not waiting "Waiting for CephFS share" while the share is mounted at the
\* frozen mountpoint.
C37_StatusAgreesWithMount ==
    ~ ( /\ status = Status("waiting", "Waiting for CephFS share")
        /\ Truthy(FrozenMountpoint)
        /\ FrozenMountpoint \in mounts )


\* C38: through config-changed signals, a frozen config that holds a
\* mountpoint holds an entry (possibly null) for each of noexec, nosuid, nodev
\* and read-only, so the lookups of the MountShare handler find every key.
C38_FrozenConfigComplete ==
    Get(FrozenConfig, "mountpoint") # NULL
    => \A k \in ConfigKeys : k \in DOMAIN FrozenConfig

\* A mountpoint is frozen by a config that left flags unset.
C38_Witness ==
    /\ last.sig = "config_changed"
    /\ Get(FrozenConfig, "mountpoint") = "/data"
    /\ DOMAIN FrozenConfig = ConfigKeys
    /\ FrozenConfig["noexec"] = NULL
    /\ FrozenConfig["nodev"] = "true"

====
